---- MODULE Spec2Model ----
(***************************************************************************)
(* A model of the redeem-code crawler: the code extractor                  *)
(* (utils/code_extractor.py), the code store and the scraped-article       *)
(* ledger (services/code_service.py, database/models.py) and the listing   *)
(* crawl (scrapers/arca_scraper.py).                                       *)
(*                                                                         *)
(* Text is a sequence of characters, each character a one-symbol string.   *)
(* Characters outside ASCII are written by their code point ("U+AC00").    *)
(***************************************************************************)
EXTENDS Integers, Sequences, FiniteSets, TLC

VARIABLES
    text,           \* extractor: the input of the current extract call
    codes,          \* extractor: the list extract returned
    pcE,            \* extractor: "start" before the call, "done" after it
    extractLog,     \* history: the calls made on the extractor and their results
    redeem_codes,   \* code store: the rows of table redeem_codes, in insertion order
    batch,          \* code store: per run, the entries given to save_codes_batch
    idx,            \* code store: per run, the index of the entry being saved
    pcS,            \* code store: per run, the position inside save_code
    results,        \* code store: per run, the results dict of save_codes_batch
    returns,        \* code store: per run, what each save_code call returned
    scraped_articles,   \* ledger: the rows of table scraped_articles
    ledgerLog,      \* ledger: the calls made on ArticleService and their results
    skip_scraped,   \* crawl: the scraper's skip_scraped
    max_pages,      \* crawl: argument max_pages of scrape_articles
    max_articles,   \* crawl: argument max_articles of scrape_articles
    pcC,            \* crawl: "idle", "page" (about to list a page), "article", "done"
    page,           \* crawl: the loop variable of scrape_articles
    articles_processed, \* crawl: the counter of scrape_articles
    article_list,   \* crawl: the entries of the page that are still to process
    stop_after_this_page,   \* crawl: the flag of scrape_articles
    all_articles,   \* crawl: the list scrape_articles returns
    cutoff_date,    \* crawl: cutoff_date of scrape_articles
    crawls,         \* crawl: the calls of scrape_articles so far
    listings,       \* crawl: the requests of a listing page so far
    detailFetches,  \* history: per URL, the requests of its article page
    pageLog,        \* history: the listing page last fetched, as it was served
    processedPos,   \* history: the positions of that page that were processed
    sawOld,         \* history: a page fetched in this crawl held an old entry
    lastRequest,    \* history: the latest call of _request and what it returned
    failedPages,    \* history: the listing pages of this crawl whose request failed
    failedPos,      \* history: the positions of that page whose article page failed
    foundAt,        \* history: per processed position, what the pass appended
    crawlRequests,  \* history: the listing and article pages this crawl requested
    pcY,            \* feed: the position inside scrape_site's youtube branch
    feed_game,      \* feed: the scraper's game, a game id or "_multi"
    session,        \* feed: the scraper's playwright, browser and page
    posts,          \* feed: the post texts still to process
    processed,      \* feed: the counter of scrape_posts
    max_posts,      \* feed: argument max_posts of scrape_posts
    all_results,    \* feed: the list scrape_posts builds
    raisedY,        \* feed: an exception is propagating
    feedCrawls,     \* feed: the calls of scrape_site so far
    siteResult,     \* feed: the dict scrape_site returned
    sessionsCreated,    \* history: the calls of _init_browser in this invocation
    exitPath,       \* history: how this invocation left scrape_posts
    exitsSeen,      \* history: the exit paths of the invocations that returned
    loaded_sites,   \* sites: SiteManager._sites, as _load built it from sites.json
    game_filter,    \* sites: argument game_filter of scrape_all, "" for none
    sites,          \* sites: the list scrape_all goes through
    site_idx,       \* sites: the loop index of scrape_all
    pcA,            \* sites: "start", "loop" or "returned"
    crawledSites,   \* history: the sites scrape_site ran a scraper on
    raisedAt,       \* history: the indices of `sites` whose crawl raised
    list_page,      \* listing: the entries of the page get_article_list is called on
    list_result,    \* listing: what the call returned, None before it
    pcL,            \* listing: "idle", "call" or "done"
    pass_item,      \* pass: the (url, title) the loop over article_list is at
    pass_fetched,   \* pass: what get_article_content returned for it, None before
    pass_result,    \* pass: what the pass did, None before it
    pcP,            \* pass: "idle", "fetch", "process", "done", "handed", and how
                    \* scrape_site ended: "saved", "returned" or "raised"
    codes_to_save,  \* pass: the list scrape_site builds for save_codes_batch
    post_content,   \* parser: the text of the feed item _parse_game_codes is called on
    post_game,      \* parser: self.game of the scraper
    post_multi,     \* parser: is_multi_game of the site the scraper was built for
    parsed,         \* parser: what the call returned, None before it
    pcG,            \* parser: "idle", "call" or "done"
    now,            \* web viewer: datetime.now(), in minutes
    is_running,     \* web viewer: per process, scrape_state['is_running']
    last_run,       \* web viewer: per process, scrape_state['last_run']
    last_result,    \* web viewer: per process, the exit path in scrape_state['last_result']
    scrape_lock,    \* web viewer: per process, the request holding scrape_lock, if any
    served_by,      \* web viewer: per request, the process serving it
    pcR,            \* web viewer: per request, its position in api_scrape
    pcT,            \* web viewer: per request, the position of the thread it started
    exit_path       \* web viewer: per request, the exit path of its run_scraper

extractVars == <<text, codes, pcE, extractLog>>

storeVars == <<redeem_codes, batch, idx, pcS, results, returns>>

ledgerVars == <<scraped_articles, ledgerLog>>

crawlVars ==
    <<skip_scraped, max_pages, max_articles, pcC, page, articles_processed,
      article_list, stop_after_this_page, all_articles, cutoff_date, crawls,
      listings, detailFetches, pageLog, processedPos, sawOld, lastRequest,
      failedPages, failedPos, foundAt, crawlRequests>>

feedVars ==
    <<pcY, feed_game, session, posts, processed, max_posts, all_results, raisedY,
      feedCrawls, siteResult, sessionsCreated, exitPath, exitsSeen>>

siteVars == <<loaded_sites, game_filter, sites, site_idx, pcA, crawledSites, raisedAt>>

listVars == <<list_page, list_result, pcL>>

passVars == <<pass_item, pass_fetched, pass_result, pcP, codes_to_save>>

parseVars == <<post_content, post_game, post_multi, parsed, pcG>>

webVars ==
    <<now, is_running, last_run, last_result, scrape_lock, served_by, pcR, pcT, exit_path>>

vars ==
    <<extractVars, storeVars, ledgerVars, crawlVars, feedVars, siteVars, listVars,
      passVars, parseVars, webVars>>

(***************************************************************************)
(* Characters and Python's str methods                                     *)
(***************************************************************************)
UpperAZ == <<"A","B","C","D","E","F","G","H","I","J","K","L","M",
             "N","O","P","Q","R","S","T","U","V","W","X","Y","Z">>

LowerAZ == <<"a","b","c","d","e","f","g","h","i","j","k","l","m",
             "n","o","p","q","r","s","t","u","v","w","x","y","z">>

Digits09 == <<"0","1","2","3","4","5","6","7","8","9">>

Range(s) == {s[i] : i \in 1..Len(s)}

UpperSet == Range(UpperAZ)

LowerSet == Range(LowerAZ)

DigitSet == Range(Digits09)

\* Characters beyond ASCII that the model's texts use: Hangul syllables,
\* LATIN CAPITAL LETTER I WITH DOT ABOVE, LATIN SMALL LETTER SHARP S and
\* COMBINING DOT ABOVE.
HangulChars == <<"U+AC00", "U+AE30", "U+B4DC", "U+B524", "U+B9AC", "U+BCF4",
                 "U+C0C1", "U+CF54", "U+CFE0", "U+D2B8", "U+D3F0", "U+D504",
                 "U+C6D0", "U+C2E0", "U+C2A4", "U+D0C0", "U+B808", "U+C77C", "U+BD95">>

HangulCodePoints == <<44032, 44592, 46300, 46372, 47532, 48372,
                      49345, 53076, 53216, 53944, 54256, 54532,
                      50896, 49888, 49828, 53440, 47112, 51068, 48533>>

HangulSet == Range(HangulChars)

Hangul == "U+AC00"

CombiningDot == "U+0307"

DottedI == "U+0130"

SharpS == "U+00DF"

IndexOf(s, c) == CHOOSE i \in 1..Len(s) : s[i] = c

\* The upper-case and the lower-case form of the ASCII letters.
ToUpper == [c \in LowerSet |-> UpperAZ[IndexOf(LowerAZ, c)]]

ToLower == [c \in UpperSet |-> LowerAZ[IndexOf(UpperAZ, c)]]

\* str.upper() of one character: a string, since one character can become two.
UpperChar(c) ==
    IF c \in LowerSet THEN <<ToUpper[c]>>
    ELSE IF c = SharpS THEN <<"S", "S">>
    ELSE <<c>>

\* str.lower() of one character.
LowerChar(c) ==
    IF c \in UpperSet THEN <<ToLower[c]>>
    ELSE IF c = DottedI THEN <<"i", CombiningDot>>
    ELSE <<c>>

RECURSIVE str_lower(_)
str_lower(s) ==
    IF s = <<>> THEN <<>> ELSE LowerChar(Head(s)) \o str_lower(Tail(s))

RECURSIVE str_upper(_)
str_upper(s) ==
    IF s = <<>> THEN <<>> ELSE UpperChar(Head(s)) \o str_upper(Tail(s))

\* str.isalpha() and str.isdigit() of one character.
IsAlpha(c) == c \in UpperSet \cup LowerSet \cup HangulSet \cup {DottedI, SharpS}

IsDigit(c) == c \in DigitSet

\* str.isdigit(): every character a digit, and at least one character.
str_isdigit(s) == s # <<>> /\ \A i \in 1..Len(s) : IsDigit(s[i])

\* The code point order of the characters, which orders Python's strings.
CodePoint(c) ==
    IF c \in DigitSet THEN 48 + IndexOf(Digits09, c) - 1
    ELSE IF c \in UpperSet THEN 65 + IndexOf(UpperAZ, c) - 1
    ELSE IF c \in LowerSet THEN 97 + IndexOf(LowerAZ, c) - 1
    ELSE IF c = " " THEN 32
    ELSE IF c = "#" THEN 35
    ELSE IF c = "%" THEN 37
    ELSE IF c = "&" THEN 38
    ELSE IF c = "-" THEN 45
    ELSE IF c = "." THEN 46
    ELSE IF c = "/" THEN 47
    ELSE IF c = ":" THEN 58
    ELSE IF c = "=" THEN 61
    ELSE IF c = "?" THEN 63
    ELSE IF c = "[" THEN 91
    ELSE IF c = "]" THEN 93
    ELSE IF c = "_" THEN 95
    ELSE IF c = SharpS THEN 223
    ELSE IF c = DottedI THEN 304
    ELSE IF c = CombiningDot THEN 775
    ELSE HangulCodePoints[IndexOf(HangulChars, c)]

\* s < t for Python strings.
RECURSIVE StrLess(_, _)
StrLess(s, t) ==
    IF t = <<>> THEN FALSE
    ELSE IF s = <<>> THEN TRUE
    ELSE IF Head(s) # Head(t) THEN CodePoint(Head(s)) < CodePoint(Head(t))
    ELSE StrLess(Tail(s), Tail(t))

\* sorted(S) of a set of strings.
RECURSIVE sorted(_)
sorted(S) ==
    IF S = {} THEN <<>>
    ELSE LET m == CHOOSE x \in S : \A y \in S \ {x} : StrLess(x, y)
         IN  <<m>> \o sorted(S \ {m})

\* sub in s.
Contains(s, sub) ==
    \E i \in 1..(Len(s) - Len(sub) + 1) : SubSeq(s, i, i + Len(sub) - 1) = sub

(***************************************************************************)
(* CodeExtractor                                                           *)
(***************************************************************************)
\* The lengths of DEFAULT_PATTERN, \b[A-Z0-9]{8,16}\b.
MinCodeLen == 8

MaxCodeLen == 16

\* _is_valid_code: "if len(code) < 10".
MinValidLen == 10

COMMON_EXCLUSIONS == {
    <<"H","T","T","P","S">>, <<"H","T","T","P">>, <<"H","T","M","L">>, <<"C","S","S">>,
    <<"J","S","O","N">>, <<"X","M","L">>, <<"J","A","V","A","S","C","R","I","P","T">>,
    <<"Y","O","U","T","U","B","E">>, <<"T","W","I","T","T","E","R">>,
    <<"F","A","C","E","B","O","O","K">>, <<"I","N","S","T","A","G","R","A","M">>,
    <<"D","I","S","C","O","R","D">>, <<"G","O","O","G","L","E">>, <<"C","H","R","O","M","E">>,
    <<"F","I","R","E","F","O","X">>, <<"S","A","F","A","R","I">>, <<"W","I","N","D","O","W","S">>,
    <<"A","N","D","R","O","I","D">>, <<"G","E","N","S","H","I","N">>, <<"I","M","P","A","C","T">>,
    <<"S","T","A","R","R","A","I","L">>, <<"H","O","N","K","A","I">>, <<"M","I","H","O","Y","O">>,
    <<"H","O","Y","O","V","E","R","S","E">>, <<"Z","E","N","L","E","S","S">>,
    <<"Z","O","N","E","Z","E","R","O">>, <<"T","E","Y","V","A","T">>,
    <<"F","O","N","T","A","I","N","E">>, <<"S","U","M","E","R","U">>,
    <<"I","N","A","Z","U","M","A">>, <<"S","P","R","E","A","D","S","H","E","E","T","S">>,
    <<"S","P","R","E","A","D","S","H","E","E","T">>, <<"D","O","W","N","L","O","A","D">>,
    <<"U","P","L","O","A","D","E","D">>, <<"C","O","M","M","U","N","I","T","Y">>,
    <<"O","F","F","I","C","I","A","L">>, <<"I","N","F","O","R","M","A","T","I","O","N">>,
    <<"R","E","D","E","E","M">>, <<"R","E","D","E","M","P","T","I","O","N">>,
    <<"P","R","I","M","O","G","E","M","S">>, <<"C","H","A","R","A","C","T","E","R">>,
    <<"C","H","A","R","A","C","T","E","R","S">>,
    <<"C","O","N","S","T","E","L","L","A","T","I","O","N">>,
    <<"C","O","N","S","T","E","L","L","A","T","I","O","N","S">>,
    <<"A","N","N","I","V","E","R","S","A","R","Y">>, <<"L","I","V","E","S","T","R","E","A","M">>,
    <<"B","R","O","A","D","C","A","S","T">>, <<"M","A","I","N","T","E","N","A","N","C","E">>,
    <<"I","N","T","E","R","T","W","I","N","E","D">>, <<"A","C","Q","U","A","I","N","T">>,
    <<"S","T","A","R","D","U","S","T">>, <<"S","T","A","R","G","L","I","T","T","E","R">>,
    <<"A","D","V","E","N","T","U","R","E">>, <<"T","R","A","V","E","L","E","R","S">>,
    <<"T","R","A","V","E","L","E","R">>, <<"B","L","E","S","S","I","N","G">>,
    <<"W","E","L","K","I","N">>, <<"G","E","N","E","S","I","S">>,
    <<"C","R","Y","S","T","A","L","S">>, <<"R","E","S","I","N">>, <<"F","R","A","G","I","L","E">>,
    <<"O","R","I","G","I","N","A","L">>, <<"A","R","T","I","F","A","C","T">>,
    <<"A","R","T","I","F","A","C","T","S">>, <<"W","E","A","P","O","N">>,
    <<"W","E","A","P","O","N","S">>, <<"D","O","M","A","I","N">>,
    <<"C","O","M","M","I","S","S","I","O","N">>, <<"C","O","M","M","I","S","S","I","O","N","S">>,
    <<"R","E","P","U","T","A","T","I","O","N">>, <<"E","X","P","L","O","R","A","T","I","O","N">>,
    <<"A","B","Y","S","S">>, <<"S","P","I","R","A","L">>, <<"F","L","O","O","R">>,
    <<"C","H","A","M","B","E","R">>, <<"V","E","R","S","I","O","N">>, <<"U","P","D","A","T","E">>,
    <<"P","R","E","M","I","U","M">>, <<"S","U","B","S","C","R","I","P","T","I","O","N">>,
    <<"P","U","R","C","H","A","S","E">>, <<"P","A","Y","M","E","N","T">>,
    <<"R","E","W","A","R","D">>
}

\* [A-Z0-9] of DEFAULT_PATTERN.
IsCodeChar(c) == c \in UpperSet \cup DigitSet

\* \w of a str pattern: letters of any script, digits and the underscore.
IsWordChar(c) == IsAlpha(c) \/ IsDigit(c) \/ c = "_"

\* \b at position p of t: between t[p-1] and t[p], one is a word character
\* and the other is not (the ends of t count as not).
WordBoundary(t, p) ==
    (p > 1 /\ p - 1 <= Len(t) /\ IsWordChar(t[p - 1]))
        # (p >= 1 /\ p <= Len(t) /\ IsWordChar(t[p]))

\* The number of characters of [A-Z0-9] at t[i], t[i+1], ..., at most max.
RECURSIVE CodeRunLen(_, _, _)
CodeRunLen(t, i, max) ==
    IF max = 0 \/ i > Len(t) \/ ~IsCodeChar(t[i]) THEN 0
    ELSE 1 + CodeRunLen(t, i + 1, max - 1)

\* Mutant: the pattern without its upper length, \b[A-Z0-9]{8,}\b.
PatternMatchLenUnbounded(t, i) ==
    LET run == CodeRunLen(t, i, Len(t))
    IN  IF WordBoundary(t, i) /\ run >= MinCodeLen /\ WordBoundary(t, i + run)
        THEN run
        ELSE 0

\* The length of the match of DEFAULT_PATTERN at position i of t, 0 for none:
\* the quantifier is greedy, so the longest length that ends at a \b.
PatternMatchLen(t, i) ==
    LET run == CodeRunLen(t, i, MaxCodeLen)
        ends == {n \in MinCodeLen..run : WordBoundary(t, i + n)}
    IN  IF WordBoundary(t, i) /\ ends # {}
        THEN CHOOSE n \in ends : \A m \in ends : m <= n
        ELSE 0

\* pattern.findall(t) from position i on: the matches left to right, the
\* search resuming where a match ended.
RECURSIVE PatternFindall(_, _)
PatternFindall(t, i) ==
    IF i > Len(t) THEN <<>>
    ELSE LET n == PatternMatchLen(t, i)
         IN  IF n > 0
             THEN <<SubSeq(t, i, i + n - 1)>> \o PatternFindall(t, i + n)
             ELSE PatternFindall(t, i + 1)

\* [A-Za-z0-9] under re.IGNORECASE in a str pattern: the ASCII letters and
\* digits, and the letters whose case folding is an ASCII letter.
IsUrlValueChar(c) == c \in UpperSet \cup LowerSet \cup DigitSet \cup {DottedI}

\* A literal letter of the pattern under re.IGNORECASE.
MatchesLetter(c, letter) == c = letter \/ <<c>> = UpperChar(letter)

\* "[?&]code=" at position i of t.
UrlKeyAt(t, i) ==
    /\ i + 5 <= Len(t)
    /\ t[i] \in {"?", "&"}
    /\ MatchesLetter(t[i + 1], "c")
    /\ MatchesLetter(t[i + 2], "o")
    /\ MatchesLetter(t[i + 3], "d")
    /\ MatchesLetter(t[i + 4], "e")
    /\ t[i + 5] = "="

\* The length of the greedy ([A-Za-z0-9]+) at position i of t.
RECURSIVE UrlValueLen(_, _)
UrlValueLen(t, i) ==
    IF i > Len(t) \/ ~IsUrlValueChar(t[i]) THEN 0
    ELSE 1 + UrlValueLen(t, i + 1)

\* URL_CODE_PATTERN.findall(t) from position i on: the captured groups.
RECURSIVE UrlCodeFindall(_, _)
UrlCodeFindall(t, i) ==
    IF i > Len(t) THEN <<>>
    ELSE LET n == IF UrlKeyAt(t, i) THEN UrlValueLen(t, i + 6) ELSE 0
         IN  IF n > 0
             THEN <<SubSeq(t, i + 6, i + 5 + n)>> \o UrlCodeFindall(t, i + 6 + n)
             ELSE UrlCodeFindall(t, i + 1)

extract_from_url(t) ==
    IF t = <<>> THEN <<>>
    ELSE LET matches == UrlCodeFindall(t, 1)
         IN  [k \in 1..Len(matches) |-> str_upper(matches[k])]

special_keywords ==
    << <<"G","I","F","T">>, <<"C","O","D","E">>, <<"R","E","W","A","R","D">>,
       <<"F","R","E","E">>, <<"B","O","N","U","S">> >>

\* Mutant: only codes that mix letters and digits are valid.
IsValidCodeMixedOnly(code) ==
    /\ Len(code) >= MinValidLen
    /\ ~Contains(code, <<"X","X","X","X">>)
    /\ \E i \in 1..Len(code) : IsAlpha(code[i])
    /\ \E i \in 1..Len(code) : IsDigit(code[i])

is_valid_code(code) ==
    LET has_letter == \E i \in 1..Len(code) : IsAlpha(code[i])
        has_digit == \E i \in 1..Len(code) : IsDigit(code[i])
    IN  IF str_isdigit(code) THEN FALSE
        ELSE IF Len(code) < MinValidLen THEN FALSE
        ELSE IF Contains(code, <<"X","X","X","X">>) THEN FALSE
        ELSE IF has_letter /\ has_digit THEN TRUE
        ELSE IF has_letter /\ ~has_digit
             THEN \E k \in 1..Len(special_keywords) :
                      Contains(code, special_keywords[k]) /\ code # special_keywords[k]
        ELSE FALSE

\* Mutant: the filter without the URL codes' exemption.
KeepCodeNoUrlBypass(code, url_codes, exclusions) ==
    code \notin exclusions /\ is_valid_code(code)

\* Mutant: every candidate is kept.
KeepCodeAll(code, url_codes, exclusions) == TRUE

\* Mutant: the filter without the validator.
KeepCodeNoValidator(code, url_codes, exclusions) ==
    code \in Range(url_codes) \/ code \notin exclusions

\* The filter of extract: a candidate is kept if the URL pattern found it, or
\* if it is not excluded and is valid.
KeepCode(code, url_codes, exclusions) ==
    code \in Range(url_codes) \/ (code \notin exclusions /\ is_valid_code(code))

\* The candidates that pass the filter of extract, as a set: the order in
\* which Python iterates a set of strings is not fixed.
filtered_codes(t) ==
    LET text_upper == str_upper(t)
        url_codes == extract_from_url(t)
        found_codes == Range(url_codes) \cup Range(PatternFindall(text_upper, 1))
    IN  {code \in found_codes : KeepCode(code, url_codes, COMMON_EXCLUSIONS)}

extract(t) ==
    IF t = <<>> THEN <<>>
    ELSE sorted(filtered_codes(t))

\* The orders in which a set can be iterated: the lists that hold each of its
\* elements once.
Orderings(S) ==
    {o \in [1..Cardinality(S) -> S] : \A i, j \in 1..Cardinality(S) : o[i] = o[j] => i = j}

\* l without its element at index i.
RemoveAt(l, i) == SubSeq(l, 1, i - 1) \o SubSeq(l, i + 1, Len(l))

\* Mutant: the list is returned in the order the set was iterated.
NotSorted(l) == l

\* Mutant: the list is sorted from the greatest string down.
RECURSIVE SortedDescending(_)
SortedDescending(l) ==
    IF l = <<>> THEN <<>>
    ELSE LET m == CHOOSE i \in 1..Len(l) : \A j \in 1..Len(l) : ~StrLess(l[i], l[j])
         IN  <<l[m]>> \o SortedDescending(RemoveAt(l, m))

\* sorted(l) of a list of strings.
RECURSIVE sorted_list(_)
sorted_list(l) ==
    IF l = <<>> THEN <<>>
    ELSE LET m == CHOOSE i \in 1..Len(l) : \A j \in 1..Len(l) : ~StrLess(l[j], l[i])
         IN  <<l[m]>> \o sorted_list(RemoveAt(l, m))

(***************************************************************************)
(* The extractor's inputs: texts of at most MaxPieces pieces                *)
(***************************************************************************)
MaxPieces == 3

Pieces == {
    <<" ">>,
    <<"?","C","o","d","e","=">>,
    <<"A","b","C","1","2","3","x","y","Z","9">>,
    <<"1","2","3","4","5","6","7","8">>,
    <<"G","E","N","S","H","I","N","G","I","F","T","2","0","2","6">>,
    <<"X","X","X","X">>,
    <<"G","I","F","T">>,
    <<"R","E","W","A","R","D">>,
    <<"S","T","A","R","R","A","I","L">>,
    <<Hangul>>,
    <<DottedI>>,
    <<"&","c","o","d","e","=">>,
    <<"_">>
}

RECURSIVE Concat(_)
Concat(ps) == IF ps = <<>> THEN <<>> ELSE Head(ps) \o Concat(Tail(ps))

Texts == {Concat(ps) : ps \in UNION {[1..n -> Pieces] : n \in 0..MaxPieces}}

\* The texts given to an extractor that is called again and again.
RepeatTexts == {
    <<>>,
    <<"A","b","C","1","2","3","x","y","Z","9">>,
    <<"G","I","F","T","C","O","D","E","2","0","2","6"," ","A","b","C","1","2","3","x","y","Z","9">>,
    <<"A","b","C","1","2","3","x","y","Z","9"," ","G","I","F","T","C","O","D","E","2","0","2","6">>,
    <<"?","c","o","d","e","=","z","z"," ","A","B","C","1","2","3","X","Y","Z","9"," ",
      "&","c","o","d","e","=","a","b","c","1","2","3","x","y","z","9">>,
    <<"G","E","N","S","H","I","N">>
}

\* The calls made on one extractor.
MaxExtractCalls == 3

InitExtract ==
    /\ text \in Texts
    /\ codes = <<>>
    /\ pcE = "start"
    /\ extractLog = <<>>

\* No extract call is in progress.
ExtractIdle ==
    /\ text = <<>>
    /\ codes = <<>>
    /\ pcE = "done"
    /\ extractLog = <<>>

\* One call of extract on text t: the filtered candidates are listed in the
\* order the set happens to be iterated in, and the list is sorted.
ExtractOn(t) ==
    /\ Len(extractLog) < MaxExtractCalls
    /\ \E order \in Orderings(IF t = <<>> THEN {} ELSE filtered_codes(t)) :
           /\ codes' = sorted_list(order)
           /\ extractLog' = Append(extractLog, [text |-> t, codes |-> sorted_list(order)])
    /\ text' = t
    /\ pcE' = "done"

\* The call of extract on the text.
ExtractCall == pcE = "start" /\ ExtractOn(text)

\* A further call on the same extractor.
ExtractAgain == \E t \in RepeatTexts : ExtractOn(t)

(***************************************************************************)
(* The code store: table redeem_codes, CodeService                         *)
(***************************************************************************)
\* The runs that save into the one database, concurrently.
Runs == {"run1", "run2", "run3"}

Games == {"genshin", "starrail"}

SampleCodes == {
    <<"A","B","C","1","2","3","X","Y","Z","9">>,
    <<"G","E","N","S","H","I","N","G","I","F","T","2","0","2","6">>
}

\* The number of save_code calls of all runs together.
MaxCalls == 3

\* What a run found: the article it read the codes from.
SourceUrlOf(r) == <<"source_url", r>>

SourceTitleOf(r) == <<"source_title", r>>

\* The code_info dicts a run may hand to save_codes_batch.
CodeInfos(r) ==
    [code : SampleCodes, game : Games,
     source_url : {SourceUrlOf(r)}, source_title : {SourceTitleOf(r)}]

\* A new RedeemCode row: is_valid defaults to True.
RedeemCode(code, game, source_url, source_title) ==
    [code |-> code, game |-> game, source_url |-> source_url,
     source_title |-> source_title, is_valid |-> TRUE]

\* Mutant: column code without unique=True.
UniqueCodeViolatedNever(rows, row) == FALSE

\* The UNIQUE constraint on column code: would inserting row break it?
UniqueCodeViolated(rows, row) == \E i \in 1..Len(rows) : rows[i].code = row.code

\* session.query(RedeemCode).filter_by(code=code).first() is not None
code_exists(rows, code) == \E i \in 1..Len(rows) : rows[i].code = code

\* The messages of save_code, by their fixed text.
MsgExists(code) == <<"ALREADY_EXISTS", code>>

MsgSaved(code) == <<"SAVED", code>>

MsgConcurrentDuplicate(code) == <<"DUPLICATE_CONCURRENT", code>>

\* The message of save_code when the insert raised another exception than
\* IntegrityError: f"저장 실패: {e}".
MsgSaveFailed(code) == <<"SAVE_FAILED", code>>

\* The same with the text of the exception told apart: the text of a database
\* error quotes the statement's parameters, the source title among them, so it
\* may or may not hold the word "중복".
SaveErrorTexts == {"plain", "quotes_duplicate"}

MsgSaveFailedSaying(code, e) == <<"SAVE_FAILED", code, e>>

\* "이미 존재" in message
MentionsExists(message) == message[1] = "ALREADY_EXISTS"

\* "중복" in message
MentionsDuplicate(message) ==
    \/ message[1] = "DUPLICATE_CONCURRENT"
    \/ message[1] = "SAVE_FAILED" /\ Len(message) > 2 /\ message[3] = "quotes_duplicate"

\* Mutant: only the IntegrityError message counts as a duplicate.
ClassifyConcurrentOnly(success, message) ==
    IF success THEN "saved"
    ELSE IF MentionsDuplicate(message) THEN "duplicates"
    ELSE "errors"

\* The branch of save_codes_batch a return value of save_code takes.
Classify(success, message) ==
    IF success THEN "saved"
    ELSE IF MentionsExists(message) \/ MentionsDuplicate(message) THEN "duplicates"
    ELSE "errors"

EmptyResults ==
    [saved |-> 0, duplicates |-> 0, errors |-> 0,
     saved_codes |-> <<>>, duplicate_codes |-> <<>>]

\* The results dict after one save_code call returned (success, message).
Tally(res, code, success, message) ==
    LET class == Classify(success, message)
    IN  IF class = "saved"
        THEN [res EXCEPT !.saved = @ + 1, !.saved_codes = Append(@, code)]
        ELSE IF class = "duplicates"
        THEN [res EXCEPT !.duplicates = @ + 1, !.duplicate_codes = Append(@, code)]
        ELSE [res EXCEPT !.errors = @ + 1]

\* The batches of the runs: at most MaxCalls entries in all.
BatchLengths ==
    {l \in (0..MaxCalls) \X (0..MaxCalls) \X (0..MaxCalls) : l[1] + l[2] + l[3] <= MaxCalls}

BatchChoices ==
    UNION {{[run1 |-> b1, run2 |-> b2, run3 |-> b3] :
                b1 \in [1..l[1] -> CodeInfos("run1")],
                b2 \in [1..l[2] -> CodeInfos("run2")],
                b3 \in [1..l[3] -> CodeInfos("run3")]} : l \in BatchLengths}

InitStore ==
    /\ redeem_codes = <<>>
    /\ batch \in BatchChoices
    /\ idx = [r \in Runs |-> 1]
    /\ pcS = [r \in Runs |-> "call"]
    /\ results = [r \in Runs |-> EmptyResults]
    /\ returns = [r \in Runs |-> <<>>]

\* No run saves anything.
StoreIdle ==
    /\ redeem_codes = <<>>
    /\ batch = [r \in Runs |-> <<>>]
    /\ idx = [r \in Runs |-> 1]
    /\ pcS = [r \in Runs |-> "done"]
    /\ results = [r \in Runs |-> EmptyResults]
    /\ returns = [r \in Runs |-> <<>>]

\* save_code returned (success, message) in run r: save_codes_batch counts it
\* and goes on to the next entry.
SaveCodeReturns(r, success, message) ==
    /\ returns' = [returns EXCEPT ![r] = Append(@, [success |-> success, message |-> message])]
    /\ results' = [results EXCEPT ![r] = Tally(@, batch[r][idx[r]].code, success, message)]
    /\ idx' = [idx EXCEPT ![r] = @ + 1]
    /\ pcS' = [pcS EXCEPT ![r] = "call"]

\* save_code, first half: the code_exists query. An existing code returns at
\* once; otherwise the call goes on to the insert.
CodeExistsStep(r) ==
    /\ pcS[r] = "call"
    /\ idx[r] <= Len(batch[r])
    /\ LET code == batch[r][idx[r]].code
       IN  IF code_exists(redeem_codes, code)
           THEN SaveCodeReturns(r, FALSE, MsgExists(code))
           ELSE /\ pcS' = [pcS EXCEPT ![r] = "insert"]
                /\ UNCHANGED <<idx, results, returns>>
    /\ UNCHANGED <<redeem_codes, batch>>

\* Mutant: the refused insert replaces the stored row of the code.
SessionRollbackOverwrites(rows, new_code) ==
    [i \in 1..Len(rows) |-> IF rows[i].code = new_code.code THEN new_code ELSE rows[i]]

\* session.rollback() after the IntegrityError: the rows of the table once the
\* refused insert is undone.
session_rollback(rows, new_code) == rows

\* save_code, second half: session.add and session.commit. The database
\* refuses a second row of the same code with an IntegrityError.
InsertStep(r) ==
    /\ pcS[r] = "insert"
    /\ LET e == batch[r][idx[r]]
           new_code == RedeemCode(e.code, e.game, e.source_url, e.source_title)
       IN  IF UniqueCodeViolated(redeem_codes, new_code)
           THEN /\ SaveCodeReturns(r, FALSE, MsgConcurrentDuplicate(e.code))
                /\ redeem_codes' = session_rollback(redeem_codes, new_code)
           ELSE /\ redeem_codes' = Append(redeem_codes, new_code)
                /\ SaveCodeReturns(r, TRUE, MsgSaved(e.code))
    /\ UNCHANGED batch

\* save_code, second half, when session.commit raises another exception than
\* IntegrityError: rollback, and (False, "저장 실패: ...").
InsertFailsStep(r) ==
    /\ pcS[r] = "insert"
    /\ \E e \in SaveErrorTexts :
           SaveCodeReturns(r, FALSE, MsgSaveFailedSaying(batch[r][idx[r]].code, e))
    /\ UNCHANGED <<redeem_codes, batch>>

\* save_codes_batch returns its results.
BatchReturn(r) ==
    /\ pcS[r] = "call"
    /\ idx[r] > Len(batch[r])
    /\ pcS' = [pcS EXCEPT ![r] = "done"]
    /\ UNCHANGED <<redeem_codes, batch, idx, results, returns>>


(***************************************************************************)
(* The ledger of visited articles: table scraped_articles, ArticleService  *)
(***************************************************************************)
\* Mutant: the query string is kept in the pattern.
BeforeQueryKept(url) == url

\* url.split('?')[0]
RECURSIVE BeforeQuery(_)
BeforeQuery(url) ==
    IF url = <<>> \/ Head(url) = "?" THEN <<>>
    ELSE <<Head(url)>> \o BeforeQuery(Tail(url))

\* SQLite's LIKE compares ASCII letters without regard to case.
AsciiFold(c) == IF c \in LowerSet THEN ToUpper[c] ELSE c

\* s LIKE pattern: % stands for any characters, _ for any one character.
RECURSIVE LikeMatch(_, _)
LikeMatch(pattern, s) ==
    IF pattern = <<>> THEN s = <<>>
    ELSE IF Head(pattern) = "%"
         THEN \E k \in 0..Len(s) : LikeMatch(Tail(pattern), SubSeq(s, k + 1, Len(s)))
    ELSE IF s = <<>> THEN FALSE
    ELSE IF Head(pattern) = "_" THEN LikeMatch(Tail(pattern), Tail(s))
    ELSE AsciiFold(Head(pattern)) = AsciiFold(Head(s))
             /\ LikeMatch(Tail(pattern), Tail(s))

\* Mutant: the query compares the stored URL with the URL as given.
is_scraped_exact(rows, url) == \E i \in 1..Len(rows) : rows[i].url = url

\* ArticleService.is_scraped: some row's url is LIKE base_url followed by %.
is_scraped(rows, url) ==
    LET base_url == BeforeQuery(url)
    IN  \E i \in 1..Len(rows) : LikeMatch(base_url \o <<"%">>, rows[i].url)

ScrapedArticle(url, game, title, codes_found) ==
    [url |-> url, game |-> game, title |-> title, codes_found |-> codes_found]

\* Mutant: column url without unique=True.
UniqueUrlViolatedNever(rows, row) == FALSE

\* The UNIQUE constraint on column url: would inserting row break it?
UniqueUrlViolated(rows, row) == \E i \in 1..Len(rows) : rows[i].url = row.url

\* ArticleService.mark_scraped: the rows after the call and what it returns.
\* The IntegrityError of a second row for the url is caught: False.
mark_scraped(rows, url, game, title, codes_found) ==
    LET article == ScrapedArticle(url, game, title, codes_found)
    IN  IF UniqueUrlViolated(rows, article)
        THEN [rows |-> rows, result |-> FALSE]
        ELSE [rows |-> Append(rows, article), result |-> TRUE]

\* The URLs the ledger is called with.
LedgerUrls == {
    <<"/","b","/","1","0","0">>,
    <<"/","b","/","1","0","0","0">>,
    <<"/","b","/","1","0","0","?","p","=","1">>,
    <<"/","b","/","1","0","0","?","p","=","2">>,
    <<"/","B","/","1","0","0">>,
    <<"/","b","/","1","_","0">>,
    <<"/","b","/","%">>
}

\* The number of calls made on the ledger.
MaxLedgerCalls == 3

InitLedger ==
    /\ scraped_articles = <<>>
    /\ ledgerLog = <<>>

\* Nothing calls the ledger.
LedgerIdle == InitLedger

\* A call of mark_scraped.
MarkScrapedCall(url, game) ==
    /\ Len(ledgerLog) < MaxLedgerCalls
    /\ LET r == mark_scraped(scraped_articles, url, game, <<"title">>, 0)
       IN  /\ scraped_articles' = r.rows
           /\ ledgerLog' = Append(ledgerLog,
                  [op |-> "mark_scraped", url |-> url, result |-> r.result])

\* A call of is_scraped.
IsScrapedCall(url) ==
    /\ Len(ledgerLog) < MaxLedgerCalls
    /\ ledgerLog' = Append(ledgerLog,
           [op |-> "is_scraped", url |-> url,
            result |-> is_scraped(scraped_articles, url)])
    /\ UNCHANGED scraped_articles

(***************************************************************************)
(* ArcaScraper: the listing crawl (scrapers/arca_scraper.py)               *)
(***************************************************************************)
ARCA_BASE_URL == <<"h","t","t","p","s",":","/","/","a","r","c","a",".","l","i","v","e">>

\* An Optional value: None, or the value that is present.  Dates are counted
\* in days.
None == <<>>

Some(v) == <<v>>

\* datetime.utcnow(), in days.
utcnow == 100

\* The default of parameter max_age_days of scrape_articles.
max_age_days == 30

\* now - timedelta(days=max_age_days)
CutoffDate == utcnow - max_age_days

\* A date as old as the cutoff, which is not older than it, and an older one.
NewDate == Some(CutoffDate)

OldDate == Some(CutoffDate - 1)

\* article_date and article_date < cutoff_date
IsOld(date, cutoff) == date # None /\ date[1] < cutoff

startswith(s, prefix) ==
    Len(prefix) <= Len(s) /\ SubSeq(s, 1, Len(prefix)) = prefix

\* str.count of one character.
count(s, c) == Cardinality({i \in 1..Len(s) : s[i] = c})

FullUrl(href) == IF startswith(href, <<"/">>) THEN ARCA_BASE_URL \o href ELSE href

\* '/b/' in href and href.count('/') >= 3
IsArticleHref(href) == Contains(href, <<"/","b","/">>) /\ count(href, "/") >= 3

\* SiteManager.DEFAULT_KEYWORDS
DEFAULT_KEYWORDS == {
    <<"U+B9AC","U+B524">>, <<"U+CFE0","U+D3F0">>, <<"U+CF54","U+B4DC">>, <<"U+AE30","U+D504","U+D2B8">>, <<"U+BCF4","U+C0C1">>,
    <<"r","e","d","e","e","m">>, <<"c","o","u","p","o","n">>,
    <<"c","o","d","e">>, <<"g","i","f","t">>, <<"r","e","w","a","r","d">>
}

\* Mutant: every text that is not empty passes for one that holds a keyword.
HasKeywordAnyText(t) == t # <<>>

\* SiteManager.has_keyword
has_keyword(t) ==
    IF t = <<>> THEN FALSE
    ELSE LET text_lower == str_lower(t)
         IN  \E keyword \in DEFAULT_KEYWORDS : Contains(text_lower, str_lower(keyword))

\* A timestamp as a <time> tag carries it, in its datetime attribute or in
\* its text: what the parsers make of it, and the day it names.  An attribute
\* "iso" is read by fromisoformat once a trailing Z and the fraction are cut
\* off; a text "full" matches '%Y-%m-%d %H:%M:%S', and the first ten
\* characters of a text "date" match '%Y-%m-%d'; "bad" is read by none.
Stamp(kind, day) == [kind |-> kind, day |-> day]

\* A <time> tag: its datetime attribute and its text, each None when absent
\* or empty.
TimeElem(dt_attr, elem_text) == Some([datetime |-> dt_attr, text |-> elem_text])

\* Mutant: a tag that cannot be read gives the first day of the calendar.
ParseTimeElementEpoch(time_elem) ==
    IF time_elem # None /\ time_elem[1].datetime # None
          /\ time_elem[1].datetime[1].kind = "iso"
    THEN Some(time_elem[1].datetime[1].day)
    ELSE Some(0)

\* _parse_time_element: the datetime attribute first, then the text as a
\* full timestamp, then its first ten characters as a date.
parse_time_element(time_elem) ==
    IF time_elem = None THEN None
    ELSE LET dt_attr == time_elem[1].datetime
             elem_text == time_elem[1].text
         IN  IF dt_attr # None /\ dt_attr[1].kind = "iso"
             THEN Some(dt_attr[1].day)
             ELSE IF elem_text # None /\ elem_text[1].kind = "full"
             THEN Some(elem_text[1].day)
             ELSE IF elem_text # None /\ elem_text[1].kind = "date"
             THEN Some(elem_text[1].day)
             ELSE None

\* Mutant: only the entries more than a day older than the cutoff are left
\* out.
EntryQueuedDayLate(entry, cutoff, scraped, skip) ==
    /\ ~(entry.article_date # None /\ entry.article_date[1] < cutoff - 1)
    /\ IsArticleHref(entry.href)
    /\ ~(skip /\ scraped[FullUrl(entry.href)])

\* Mutant: an old entry raises the page's flag and is queued all the same.
EntryQueuedOldToo(entry, cutoff, scraped, skip) ==
    /\ IsArticleHref(entry.href)
    /\ ~(skip /\ scraped[FullUrl(entry.href)])

\* get_article_list, the body of the loop: is the entry appended to articles?
\* scraped[url] is what article_service.is_scraped(url) answers.
EntryQueued(entry, cutoff, scraped, skip) ==
    /\ ~IsOld(entry.article_date, cutoff)
    /\ IsArticleHref(entry.href)
    /\ ~(skip /\ scraped[FullUrl(entry.href)])

\* get_article_list on the entries of a fetched listing page: the queue
\* (full_url, title) of the entries to process, and found_old_article.  Field
\* pos is the entry's position in the page, kept for the properties.
get_article_list(entries, cutoff, scraped, skip) ==
    LET positions == [i \in 1..Len(entries) |-> i]
        kept == SelectSeq(positions,
                          LAMBDA i : EntryQueued(entries[i], cutoff, scraped, skip))
    IN  [articles |-> [n \in 1..Len(kept) |->
                          [url |-> FullUrl(entries[kept[n]].href),
                           title |-> entries[kept[n]].title,
                           pos |-> kept[n]]],
         found_old |-> \E i \in 1..Len(entries) : IsOld(entries[i].article_date, cutoff)]

\* ' '.join(parts)
RECURSIVE join(_)
join(parts) ==
    IF parts = <<>> THEN <<>>
    ELSE IF Len(parts) = 1 THEN Head(parts)
    ELSE Head(parts) \o <<" ">> \o join(Tail(parts))

\* The hrefs of an element's links that hold 'code='.
CodeLinks(links) == SelectSeq(links, LAMBDA href : Contains(href, <<"c","o","d","e","=">>))

RECURSIVE CommentParts(_)
CommentParts(comments) ==
    IF comments = <<>> THEN <<>>
    ELSE CodeLinks(Head(comments).links)
         \o (IF Head(comments).text # <<>> THEN <<Head(comments).text>> ELSE <<>>)
         \o CommentParts(Tail(comments))

\* What get_article_content returns when the request fails.
FetchFailed == [content |-> None, posted_at |-> None, modified_at |-> None]

\* get_article_content on a fetched document: the code= links of the body,
\* the body text, then each comment's code= links and text.  content None is
\* written as the empty text; every use of content tests its truth value.
get_article_content(doc) ==
    LET all_text ==
            (IF doc.has_content
             THEN CodeLinks(doc.links) \o <<doc.body>> ELSE <<>>)
            \o CommentParts(doc.comments)
    IN  [content |-> IF all_text # <<>> THEN join(all_text) ELSE None,
         posted_at |-> doc.posted_at,
         modified_at |-> doc.modified_at]

ArticleInfo(url, title, found, posted_at) ==
    [url |-> url, title |-> title, codes |-> found, posted_at |-> posted_at]

\* The game the scraper was constructed for.
self_game == "genshin"

\* An entry of a listing page: the link, its title, its <time> tag, and the
\* article_date get_article_list reads from the tag.
Entry(href, title, time_elem) ==
    [href |-> href, title |-> title, time_elem |-> time_elem,
     article_date |-> parse_time_element(time_elem)]

\* The entries a listing page is made of: an article as old as the cutoff;
\* an article whose tag cannot be read; an article older than the cutoff,
\* dated by the text of its tag; and a link that is no article.
Entries == {
    Entry(<<"/","b","/","g","/","1">>, <<"c","o","d","e">>,
          TimeElem(Some(Stamp("iso", CutoffDate)), None)),
    Entry(<<"/","b","/","g","/","2","?","p","=","1">>, <<"h","i">>,
          TimeElem(Some(Stamp("bad", 0)), Some(Stamp("bad", 0)))),
    Entry(<<"/","b","/","g","/","3">>, <<"h","i">>,
          TimeElem(None, Some(Stamp("full", CutoffDate - 1)))),
    Entry(<<"/","u","/","x">>, <<"h","i">>,
          TimeElem(Some(Stamp("iso", CutoffDate)), Some(Stamp("date", CutoffDate))))
}

\* The longest listing page.
PageSize == 3

Pages == UNION {[1..n -> Entries] : n \in 0..PageSize}

\* The URLs a crawl can queue.
ArticleUrls == {FullUrl(e.href) : e \in {x \in Entries : IsArticleHref(x.href)}}

Document(has_content, links, body, comments, posted_at, modified_at) ==
    [has_content |-> has_content, links |-> links, body |-> body,
     comments |-> comments, posted_at |-> posted_at, modified_at |-> modified_at]

\* The article pages the site serves: a body with a code= link; a body with a
\* code and no keyword; an article modified long ago; a page without content.
Documents == {
    Document(TRUE, <<<<"x","?","c","o","d","e","=","A","b","C","1","2","3","x","y","Z","9">>>>, <<"h","i">>, <<>>, NewDate, None),
    Document(TRUE, <<>>, <<"A","B","C","1","2","3","X","Y","Z","9">>, <<>>, NewDate, None),
    Document(TRUE, <<>>, <<"c","o","d","e">>, <<>>, NewDate, OldDate),
    Document(FALSE, <<>>, <<>>, <<>>, None, None)
}

\* The crawls of one behaviour, and the arguments of scrape_articles.
MaxCrawls == 2

MaxPages == 2

\* The listing pages requested in one behaviour, over all its crawls.
MaxListings == 2

ArticleBudgets == {1, 2}

\* Mutant: the codes of the title are left out.
AllCodesOfContent(codes_from_title, codes_from_content) == Range(codes_from_content)

\* all_codes = list(set(codes_from_title + codes_from_content)), as a set.
all_codes(codes_from_title, codes_from_content) ==
    Range(codes_from_title \o codes_from_content)

\* Mutant: the age of an article is the age of its posting.
CheckDatePosted(fetched) == fetched.posted_at

\* check_date = modified_at or posted_at
check_date(fetched) ==
    IF fetched.modified_at # None THEN fetched.modified_at ELSE fetched.posted_at

\* scrape_articles, the body of the loop over article_list after the fetch:
\* the ledger afterwards and the ArticleInfo appended to all_articles, if any;
\* and, for the properties, the branch taken ("old", "no_keyword" or
\* "extracted", the only one that calls extract) and the codes_found handed
\* to mark_scraped.
scrape_one(item, fetched, rows, cutoff) ==
    LET title_has_keyword == has_keyword(item.title)
        content == fetched.content
        content_has_keyword == IF content # None THEN has_keyword(content) ELSE FALSE
        codes_from_title == extract(item.title)
        codes_from_content == IF content # None THEN extract(content) ELSE <<>>
        found_codes == all_codes(codes_from_title, codes_from_content)
    IN  IF IsOld(check_date(fetched), cutoff)
        THEN [rows |-> mark_scraped(rows, item.url, self_game, item.title, 0).rows,
              branch |-> "old", codes_found |-> 0,
              found |-> <<>>]
        ELSE IF ~title_has_keyword /\ ~content_has_keyword
        THEN [rows |-> mark_scraped(rows, item.url, self_game, item.title, 0).rows,
              branch |-> "no_keyword", codes_found |-> 0,
              found |-> <<>>]
        ELSE [rows |-> mark_scraped(rows, item.url, self_game, item.title,
                                    Cardinality(found_codes)).rows,
              branch |-> "extracted", codes_found |-> Cardinality(found_codes),
              found |-> IF found_codes # {}
                        THEN <<ArticleInfo(item.url, item.title, found_codes,
                                           fetched.posted_at)>>
                        ELSE <<>>]

\* Mutant: the crawl goes on to the next page whatever the page held.
StopAfterThisPageNever(found_old) == FALSE

\* stop_after_this_page = found_old
StopAfterThisPage(found_old) == found_old

NoPage == [entries |-> <<>>, visited |-> {}]

\* What _request was last called for ("listing" or "article"), on which
\* listing page, and whether it returned a document.
Request(kind, n, ok) == [kind |-> kind, page |-> n, ok |-> ok]

NoRequest == Request("none", 0, TRUE)

\* Mutant: a page that queues nothing ends the crawl.
EmptyPageEndsCrawlAlways(found_old) == TRUE

\* if not article_list: break when found_old, continue otherwise.
EmptyPageEndsCrawl(found_old) == found_old

\* No page was requested.
NoRequests == [listing |-> 0, article |-> 0]

\* Mutant: the article budget never counts as spent.
BudgetSpentNever(n, budget) == FALSE

\* articles_processed >= max_articles, the test before each listing page and
\* before each article.
BudgetSpent(n, budget) == n >= budget

\* Mutant: a failed article page ends the loop over the page's queue.
RestOfQueueDroppedOnFailure(queue, fetched) ==
    IF fetched.content = None /\ fetched.posted_at = None THEN <<>> ELSE Tail(queue)

\* The loop over article_list goes on with the next entry, whatever
\* get_article_content returned.
RestOfQueue(queue, fetched) == Tail(queue)

InitCrawl ==
    /\ skip_scraped \in BOOLEAN
    /\ max_pages = 1
    /\ max_articles = 1
    /\ pcC = "idle"
    /\ page = 1
    /\ articles_processed = 0
    /\ article_list = <<>>
    /\ stop_after_this_page = FALSE
    /\ all_articles = <<>>
    /\ cutoff_date = CutoffDate
    /\ crawls = 0
    /\ listings = 0
    /\ detailFetches = [u \in ArticleUrls |-> 0]
    /\ pageLog = NoPage
    /\ processedPos = {}
    /\ sawOld = FALSE
    /\ lastRequest = NoRequest
    /\ failedPages = {}
    /\ failedPos = {}
    /\ foundAt = <<>>
    /\ crawlRequests = NoRequests

\* No crawl was started.
CrawlIdle ==
    /\ skip_scraped = TRUE
    /\ max_pages = 1
    /\ max_articles = 1
    /\ pcC = "idle"
    /\ page = 1
    /\ articles_processed = 0
    /\ article_list = <<>>
    /\ stop_after_this_page = FALSE
    /\ all_articles = <<>>
    /\ cutoff_date = CutoffDate
    /\ crawls = 0
    /\ listings = 0
    /\ detailFetches = [u \in ArticleUrls |-> 0]
    /\ pageLog = NoPage
    /\ processedPos = {}
    /\ sawOld = FALSE
    /\ lastRequest = NoRequest
    /\ failedPages = {}
    /\ failedPos = {}
    /\ foundAt = <<>>
    /\ crawlRequests = NoRequests

\* scrape_articles is called: lines 304-307.
StartCrawl ==
    /\ pcC \in {"idle", "done"}
    /\ crawls < MaxCrawls
    /\ crawls' = crawls + 1
    /\ \E mp \in 1..MaxPages, ma \in ArticleBudgets :
           max_pages' = mp /\ max_articles' = ma
    /\ all_articles' = <<>>
    /\ articles_processed' = 0
    /\ cutoff_date' = utcnow - max_age_days
    /\ page' = 1
    /\ article_list' = <<>>
    /\ stop_after_this_page' = FALSE
    /\ pcC' = "page"
    /\ pageLog' = NoPage
    /\ processedPos' = {}
    /\ sawOld' = FALSE
    /\ lastRequest' = NoRequest
    /\ failedPages' = {}
    /\ failedPos' = {}
    /\ foundAt' = <<>>
    /\ crawlRequests' = NoRequests
    /\ UNCHANGED <<skip_scraped, scraped_articles, listings, detailFetches>>

\* The loop over the pages ends, or breaks on the spent budget, and
\* scrape_articles returns all_articles.
ScrapeReturn ==
    /\ pcC = "page"
    /\ page > max_pages \/ BudgetSpent(articles_processed, max_articles)
    /\ pcC' = "done"
    /\ UNCHANGED <<skip_scraped, max_pages, max_articles, page, articles_processed,
                   article_list, stop_after_this_page, all_articles, cutoff_date,
                   crawls, listings, detailFetches, pageLog, processedPos, sawOld,
                   lastRequest, failedPages, failedPos, foundAt, crawlRequests,
                   scraped_articles>>

\* get_article_list fetches listing page `page`, and scrape_articles takes its
\* result: lines 313-323.
GetArticleList ==
    /\ pcC = "page"
    /\ page <= max_pages
    /\ ~BudgetSpent(articles_processed, max_articles)
    /\ listings < MaxListings
    /\ listings' = listings + 1
    /\ LET list_cutoff == utcnow - max_age_days
           scraped == [url \in ArticleUrls |-> is_scraped(scraped_articles, url)]
       IN  \E entries \in Pages :
        LET r == get_article_list(entries, list_cutoff, scraped, skip_scraped)
        IN  /\ pageLog' =
                   [entries |-> entries,
                    visited |-> {i \in 1..Len(entries) :
                                    /\ IsArticleHref(entries[i].href)
                                    /\ scraped[FullUrl(entries[i].href)]}]
            /\ sawOld' = (sawOld \/ \E i \in 1..Len(entries) :
                                        IsOld(entries[i].article_date, list_cutoff))
            /\ IF r.articles = <<>>
               THEN /\ article_list' = <<>>
                    /\ UNCHANGED stop_after_this_page
                    /\ IF EmptyPageEndsCrawl(r.found_old)
                       THEN pcC' = "done" /\ page' = page
                       ELSE pcC' = "page" /\ page' = page + 1
               ELSE /\ article_list' = r.articles
                    /\ stop_after_this_page' = StopAfterThisPage(r.found_old)
                    /\ pcC' = "article"
                    /\ page' = page
    /\ processedPos' = {}
    /\ lastRequest' = Request("listing", page, TRUE)
    /\ crawlRequests' = [crawlRequests EXCEPT !.listing = @ + 1]
    /\ failedPos' = {}
    /\ foundAt' = <<>>
    /\ UNCHANGED <<skip_scraped, max_pages, max_articles, articles_processed,
                   all_articles, cutoff_date, crawls, detailFetches, failedPages,
                   scraped_articles>>

\* The request of the listing page fails: get_article_list returns ([], False)
\* and the loop continues with the next page.
GetArticleListFails ==
    /\ pcC = "page"
    /\ page <= max_pages
    /\ ~BudgetSpent(articles_processed, max_articles)
    /\ listings < MaxListings
    /\ listings' = listings + 1
    /\ page' = page + 1
    /\ article_list' = <<>>
    /\ pageLog' = NoPage
    /\ processedPos' = {}
    /\ lastRequest' = Request("listing", page, FALSE)
    /\ crawlRequests' = [crawlRequests EXCEPT !.listing = @ + 1]
    /\ failedPages' = failedPages \cup {page}
    /\ failedPos' = {}
    /\ foundAt' = <<>>
    /\ UNCHANGED <<skip_scraped, max_pages, max_articles, pcC, articles_processed,
                   stop_after_this_page, all_articles, cutoff_date, crawls,
                   detailFetches, sawOld, scraped_articles>>

\* One pass of the loop over article_list, lines 325-395, with what
\* get_article_content returned.
ProcessWith(fetched, ok) ==
    /\ pcC = "article"
    /\ article_list # <<>>
    /\ ~BudgetSpent(articles_processed, max_articles)
    /\ LET item == Head(article_list)
           r == scrape_one(item, fetched, scraped_articles, cutoff_date)
       IN  /\ scraped_articles' = r.rows
           /\ all_articles' = all_articles \o r.found
           /\ detailFetches' = [detailFetches EXCEPT ![item.url] = @ + 1]
           /\ processedPos' = processedPos \cup {item.pos}
           /\ failedPos' = IF ok THEN failedPos ELSE failedPos \cup {item.pos}
           /\ foundAt' = Append(foundAt, [pos |-> item.pos, found |-> r.found])
    /\ lastRequest' = Request("article", page, ok)
    /\ crawlRequests' = [crawlRequests EXCEPT !.article = @ + 1]
    /\ articles_processed' = articles_processed + 1
    /\ article_list' = RestOfQueue(article_list, fetched)
    /\ UNCHANGED <<failedPages, skip_scraped, max_pages, max_articles, pcC, page,
                   stop_after_this_page, cutoff_date, crawls, listings, pageLog,
                   sawOld>>

\* The article page is fetched and the article processed.
ProcessArticle == \E doc \in Documents : ProcessWith(get_article_content(doc), TRUE)

\* The request of the article page fails and the article is processed.
ProcessArticleFetchFails == ProcessWith(FetchFailed, FALSE)

\* The loop over article_list ends, or breaks on the spent budget: lines
\* 326-327 and 397-400.
EndOfPage ==
    /\ pcC = "article"
    /\ article_list = <<>> \/ BudgetSpent(articles_processed, max_articles)
    /\ IF stop_after_this_page
       THEN pcC' = "done" /\ page' = page
       ELSE pcC' = "page" /\ page' = page + 1
    /\ article_list' = <<>>
    /\ UNCHANGED <<skip_scraped, max_pages, max_articles, articles_processed,
                   stop_after_this_page, all_articles, cutoff_date, crawls, listings,
                   detailFetches, pageLog, processedPos, sawOld, lastRequest,
                   failedPages, failedPos, foundAt, crawlRequests, scraped_articles>>

(***************************************************************************)
(* ArcaScraper.get_article_list on its own: one call on a fetched page      *)
(***************************************************************************)
\* The <time> tags of the listing entries: every pairing of a datetime
\* attribute and a text, each absent, unreadable or naming a day on either
\* side of the cutoff, and the tag that is missing.
DatetimeAttrs ==
    {None, Some(Stamp("bad", 0)), Some(Stamp("iso", CutoffDate)),
     Some(Stamp("iso", CutoffDate - 1))}

ElemTexts ==
    {None, Some(Stamp("bad", 0)), Some(Stamp("full", CutoffDate)),
     Some(Stamp("full", CutoffDate - 1)), Some(Stamp("date", CutoffDate - 1))}

TimeElems == {None} \cup {TimeElem(a, t) : a \in DatetimeAttrs, t \in ElemTexts}

\* An article link and a link that is no article, with each of the tags.
ListingEntries ==
    {Entry(href, <<"h","i">>, e) :
        href \in {<<"/","b","/","g","/","1">>, <<"/","u","/","x">>}, e \in TimeElems}

\* The longest page of a call.
MaxListed == 2

ListingPages == UNION {[1..n -> ListingEntries] : n \in 0..MaxListed}

\* The ledgers of a call: empty, or holding the article.
ListingLedgers ==
    {<<>>,
     mark_scraped(<<>>, FullUrl(<<"/","b","/","g","/","1">>), self_game, <<"h","i">>, 0).rows}

ListIdle ==
    /\ list_page = <<>>
    /\ list_result = None
    /\ pcL = "idle"

InitListing ==
    /\ list_page \in ListingPages
    /\ list_result = None
    /\ pcL = "call"
    /\ skip_scraped \in BOOLEAN
    /\ scraped_articles \in ListingLedgers

\* get_article_list is called on the page.
GetArticleListCall ==
    /\ pcL = "call"
    /\ LET scraped == [url \in {FullUrl(list_page[i].href) : i \in 1..Len(list_page)} |->
                          is_scraped(scraped_articles, url)]
       IN  list_result' =
               Some(get_article_list(list_page, utcnow - max_age_days, scraped, skip_scraped))
    /\ pcL' = "done"
    /\ UNCHANGED <<list_page, skip_scraped, scraped_articles>>

(***************************************************************************)
(* ArcaScraper.scrape_articles: one pass of the loop over article_list      *)
(***************************************************************************)
\* The dates an article page can show: none, one older than the cutoff, one
\* as old as the cutoff.
PageDates == {None, OldDate, NewDate}

\* The article pages of a pass: a body with the keyword and a code, a body
\* with a code and no keyword, and a page without content, under every
\* pairing of a posted and a modified date.
PassDocuments ==
    {Document(b # <<>>, <<>>, b, <<>>, p, m) :
        b \in {<<"c","o","d","e"," ","A","B","C","1","2","3","X","Y","Z","9">>,
               <<"A","B","C","1","2","3","X","Y","Z","9">>, <<>>},
        p \in PageDates, m \in PageDates}

\* The queue entries of a pass: a title with the keyword, one without, and
\* one that is a code and holds no keyword.
PassItems ==
    {[url |-> FullUrl(<<"/","b","/","g","/","1">>), title |-> t, pos |-> 1] :
        t \in {<<"c","o","d","e">>, <<"h","i">>,
               <<"Q","R","S","4","5","6","T","U","V","7">>}}

\* The ledgers of a pass: empty, or holding the article with one code found,
\* as a scraper that does not skip visited articles meets it.
PassLedgers ==
    {<<>>,
     mark_scraped(<<>>, FullUrl(<<"/","b","/","g","/","1">>), self_game,
                  <<"c","o","d","e">>, 1).rows}

PassIdle ==
    /\ pass_item = None
    /\ pass_fetched = None
    /\ pass_result = None
    /\ pcP = "idle"
    /\ codes_to_save = <<>>

InitPass ==
    /\ \E item \in PassItems : pass_item = Some(item)
    /\ pass_fetched = None
    /\ pass_result = None
    /\ pcP = "fetch"
    /\ codes_to_save = <<>>
    /\ scraped_articles \in PassLedgers

\* get_article_content reads the article page.
PassFetch ==
    /\ pcP = "fetch"
    /\ \E doc \in PassDocuments : pass_fetched' = Some(get_article_content(doc))
    /\ pcP' = "process"
    /\ UNCHANGED <<pass_item, pass_result, codes_to_save, scraped_articles>>

\* get_article_content returns (None, None, None): the request failed.
PassFetchFails ==
    /\ pcP = "fetch"
    /\ pass_fetched' = Some(FetchFailed)
    /\ pcP' = "process"
    /\ UNCHANGED <<pass_item, pass_result, codes_to_save, scraped_articles>>

\* The rest of the pass: lines 337-395.
PassProcess ==
    /\ pcP = "process"
    /\ LET r == scrape_one(pass_item[1], pass_fetched[1], scraped_articles,
                           utcnow - max_age_days)
       IN  /\ scraped_articles' = r.rows
           /\ pass_result' = Some([branch |-> r.branch, codes_found |-> r.codes_found,
                                   found |-> r.found,
                                   inserted |-> Len(r.rows) > Len(scraped_articles)])
    /\ pcP' = "done"
    /\ UNCHANGED <<pass_item, pass_fetched, codes_to_save>>

\* The code_info dicts scrape_site builds from an ArticleInfo, its codes in
\* the order the list was built from the set.
ArticleCodesToSave(article, order) ==
    [k \in 1..Len(order) |->
        [code |-> order[k], game |-> self_game, source_url |-> article.url,
         source_title |-> article.title, source_posted_at |-> article.posted_at]]

\* scrape_articles has returned the pass's results and scrape_site goes
\* through them: main.py, lines 59-67.
PassHandOver ==
    /\ pcP = "done"
    /\ IF pass_result[1].found = <<>>
       THEN codes_to_save' = <<>>
       ELSE \E order \in Orderings(pass_result[1].found[1].codes) :
               codes_to_save' = ArticleCodesToSave(pass_result[1].found[1], order)
    /\ pcP' = "handed"
    /\ UNCHANGED <<pass_item, pass_fetched, pass_result, scraped_articles>>

\* save_codes_batch from the k-th entry on, when session.commit raises another
\* exception than IntegrityError at the entries of `broken`: save_code rolls
\* back and returns (False, "저장 실패: ..."), which the batch counts as an
\* error.
RECURSIVE save_codes_batch_on(_, _, _, _, _)
save_codes_batch_on(rows, res, infos, k, broken) ==
    IF k > Len(infos) THEN [rows |-> rows, results |-> res]
    ELSE LET e == infos[k]
         IN  IF code_exists(rows, e.code)
             THEN save_codes_batch_on(rows, Tally(res, e.code, FALSE, MsgExists(e.code)),
                                      infos, k + 1, broken)
             ELSE IF k \in broken
             THEN save_codes_batch_on(rows, Tally(res, e.code, FALSE, MsgSaveFailed(e.code)),
                                      infos, k + 1, broken)
             ELSE save_codes_batch_on(
                      Append(rows, RedeemCode(e.code, e.game, e.source_url, e.source_title)),
                      Tally(res, e.code, TRUE, MsgSaved(e.code)), infos, k + 1, broken)

\* scrape_site saves what the crawl found: main.py, line 103.  The database
\* may fail at any of the inserts.
PassSave ==
    /\ pcP = "handed"
    /\ codes_to_save # <<>>
    /\ \E broken \in SUBSET (1..Len(codes_to_save)) :
           LET r == save_codes_batch_on(redeem_codes, EmptyResults, codes_to_save, 1, broken)
           IN  /\ redeem_codes' = r.rows
               /\ results' = [results EXCEPT !["run1"] = r.results]
    /\ pcP' = "saved"
    /\ UNCHANGED <<pass_item, pass_fetched, pass_result, codes_to_save, scraped_articles,
                   batch, idx, pcS, returns>>

\* scrape_site has nothing to save and returns: main.py, lines 98-100.
PassNothingToSave ==
    /\ pcP = "handed"
    /\ codes_to_save = <<>>
    /\ pcP' = "returned"
    /\ UNCHANGED <<pass_item, pass_fetched, pass_result, codes_to_save, scraped_articles,
                   storeVars>>

\* A later pass of the loop raises (mark_scraped lets every database error
\* but IntegrityError through, and nothing in scrape_articles catches it):
\* scrape_articles does not return, the except clause of scrape_site returns
\* one error and save_codes_batch is not reached: main.py, lines 116-118.
PassLaterArticleRaises ==
    /\ pcP = "done"
    /\ pcP' = "raised"
    /\ results' = [results EXCEPT !["run1"] = [EmptyResults EXCEPT !.errors = 1]]
    /\ UNCHANGED <<pass_item, pass_fetched, pass_result, codes_to_save, scraped_articles,
                   redeem_codes, batch, idx, pcS, returns>>

(***************************************************************************)
(* YoutubeScraper: the feed crawl (scrapers/youtube_scraper.py) as          *)
(* scrape_site runs it (main.py)                                           *)
(***************************************************************************)
\* The tags of DEFAULT_GAME_TAGS that the model's posts use, in the order of
\* the dict.
GAME_TAGS == <<
    [tag |-> <<"[","U+C6D0","U+C2E0","]">>, game |-> "genshin"],
    [tag |-> <<"[","U+C2A4","U+D0C0","U+B808","U+C77C","]">>, game |-> "starrail"],
    [tag |-> <<"[","U+BD95","U+C2A4","]">>, game |-> "starrail"] >>

\* The channel URL of the feed, as the constructor leaves it.
CHANNEL_URL == <<"/","c","o","m","m","u","n","i","t","y">>

\* re.IGNORECASE on one character of the model's alphabet.
FoldCase(c) == IF c \in UpperSet THEN ToLower[c] ELSE c

\* re.escape(tag), compiled with re.IGNORECASE, matches at position i of
\* content.
TagAt(content, i, tag) ==
    /\ i >= 1
    /\ i + Len(tag) - 1 <= Len(content)
    /\ \A k \in 1..Len(tag) : FoldCase(content[i + k - 1]) = FoldCase(tag[k])

\* The lookahead (?=tag1|tag2|...|$) at position i of content.
\* Mutant: a section runs to the end of the text, whatever tag follows.
SectionEndsOnlyAtEnd(content, i) == i = Len(content) + 1

\* $ without re.MULTILINE also matches before a newline that ends the text.
SectionEndsAt(content, i) ==
    \/ i = Len(content) + 1
    \/ i = Len(content) /\ content[i] = "\n"
    \/ \E k \in 1..Len(GAME_TAGS) : TagAt(content, i, GAME_TAGS[k].tag)

\* Mutant: the section of a tag is the whole text.
SectionIsWholeText(content, tag) == content

\* re.search(tag + '(.*?)' + lookahead, content).group(1): the text after the
\* first occurrence of tag, up to the next tag of any game or the end.
SectionAfter(content, tag) ==
    LET first == CHOOSE i \in 1..Len(content) :
                     TagAt(content, i, tag) /\ \A m \in 1..(i - 1) : ~TagAt(content, m, tag)
        from == first + Len(tag)
        to == CHOOSE j \in from..(Len(content) + 1) :
                  SectionEndsAt(content, j) /\ \A m \in from..(j - 1) : ~SectionEndsAt(content, m)
    IN  SubSeq(content, from, to - 1)

GameCodeResult(game, found, source_url, source_title) ==
    [game |-> game, codes |-> found, source_url |-> source_url, source_title |-> source_title]

\* s[:n]
Slice(s, n) == SubSeq(s, 1, IF n < Len(s) THEN n ELSE Len(s))

\* f"YouTube: {content[:40]}..."
SourceTitle(content) == <<"YouTube">> \o Slice(content, 40)

\* The loop of _parse_game_codes over the tags from the k-th on.
RECURSIVE TaggedResults(_, _)
TaggedResults(content, k) ==
    IF k > Len(GAME_TAGS) THEN <<>>
    ELSE LET tag == GAME_TAGS[k].tag
             found == IF Contains(content, tag)
                      THEN extract(SectionAfter(content, tag)) ELSE <<>>
         IN  (IF found # <<>>
              THEN <<GameCodeResult(GAME_TAGS[k].game, found, CHANNEL_URL, SourceTitle(content))>>
              ELSE <<>>)
             \o TaggedResults(content, k + 1)

\* Mutant: the whole text is extracted whatever self.game is.
FallbackDueForAnyGame(tagged, game) == tagged = <<>>

\* not results and self.game != "_multi"
FallbackDue(tagged, game) == tagged = <<>> /\ game # "_multi"

\* YoutubeScraper._parse_game_codes
parse_game_codes(content, game) ==
    LET tagged == TaggedResults(content, 1)
    IN  IF FallbackDue(tagged, game) /\ extract(content) # <<>>
        THEN <<GameCodeResult(game, extract(content), CHANNEL_URL, SourceTitle(content))>>
        ELSE tagged

\* sum(len(r.codes) for r in game_results)
RECURSIVE TotalCodes(_)
TotalCodes(game_results) ==
    IF game_results = <<>> THEN 0
    ELSE Len(Head(game_results).codes) + TotalCodes(Tail(game_results))

\* f"{self.channel_url}#{processed}"
PostUrl(n) == CHANNEL_URL \o <<"#", Digits09[n + 1]>>

\* The session of a scraper: each of playwright, browser and page is "none"
\* (the attribute is None), "open", or "released".
NoSession == [playwright |-> "none", browser |-> "none", page |-> "none"]

OpenSession == [playwright |-> "open", browser |-> "open", page |-> "open"]

\* _init_browser that raises in its k-th statement: start of the driver,
\* launch of the browser, new_page, set_extra_http_headers.  The attributes
\* assigned before the failure keep their objects.
InitFailedAt(k) ==
    [playwright |-> IF k > 1 THEN "open" ELSE "none",
     browser |-> IF k > 2 THEN "open" ELSE "none",
     page |-> IF k > 3 THEN "open" ELSE "none"]

InitSteps == 4

\* page.close(), browser.close(), playwright.stop() on an object.
Release(x) == IF x = "open" THEN "released" ELSE x

\* Mutant: close leaves the driver running.
CloseKeepsDriver(s, strict) ==
    [session |-> [s EXCEPT !.page = Release(@), !.browser = Release(@)], raised |-> FALSE]

\* YoutubeScraper.close: releases what is not None, the page first.  The
\* attributes are not reset, so a second close reaches released objects;
\* whether the library then raises or does nothing is `strict`.  A raise
\* leaves the later attributes untouched.
close(s, strict) ==
    IF strict /\ s.page = "released" THEN [session |-> s, raised |-> TRUE]
    ELSE LET s1 == [s EXCEPT !.page = Release(@)]
         IN  IF strict /\ s1.browser = "released" THEN [session |-> s1, raised |-> TRUE]
             ELSE LET s2 == [s1 EXCEPT !.browser = Release(@)]
                  IN  IF strict /\ s2.playwright = "released"
                      THEN [session |-> s2, raised |-> TRUE]
                      ELSE [session |-> [s2 EXCEPT !.playwright = Release(@)],
                            raised |-> FALSE]

\* Mutant: scrape_site without its finally clause.
ScrapeSiteNoFinally(s, strict) == [session |-> s, raised |-> FALSE]

\* The finally clause of scrape_site: scraper.close().
scrape_site_finally(s, strict) == close(s, strict)

\* The code_info dicts scrape_site builds from the results of scrape_posts.
RECURSIVE CodesToSave(_)
CodesToSave(found_results) ==
    IF found_results = <<>> THEN <<>>
    ELSE LET r == Head(found_results)
         IN  [k \in 1..Len(r.codes) |->
                 [code |-> r.codes[k], game |-> r.game,
                  source_url |-> r.source_url, source_title |-> r.source_title]]
             \o CodesToSave(Tail(found_results))

\* save_codes_batch by a run that no other run interleaves with: the rows of
\* the table and the results dict after the entries from the k-th on.
RECURSIVE save_codes_batch(_, _, _, _)
save_codes_batch(rows, res, infos, k) ==
    IF k > Len(infos) THEN [rows |-> rows, results |-> res]
    ELSE LET e == infos[k]
         IN  IF code_exists(rows, e.code)
             THEN save_codes_batch(rows, Tally(res, e.code, FALSE, MsgExists(e.code)),
                                   infos, k + 1)
             ELSE save_codes_batch(
                      Append(rows, RedeemCode(e.code, e.game, e.source_url, e.source_title)),
                      Tally(res, e.code, TRUE, MsgSaved(e.code)), infos, k + 1)

\* The texts of the posts a feed page holds: two tagged sections with a code
\* each; a code and no tag; a tag and no code.
FeedTexts == {
    <<"[","U+C6D0","U+C2E0","]","A","b","C","1","2","3","x","y","Z","9"," ",
      "[","U+BD95","U+C2A4","]","G","I","F","T","C","O","D","E","2","0","2","6">>,
    <<"A","B","C","1","2","3","X","Y","Z","9">>,
    <<"[","U+C6D0","U+C2E0","]","h","i">>
}

\* The posts of a feed page, and the arguments of scrape_posts.
MaxFeedPosts == 1

MaxPosts == 1

MaxFeedCrawls == 2

FeedPostLists == UNION {[1..n -> FeedTexts] : n \in 0..MaxFeedPosts}

NoSiteResult == [errors |-> 0, saved |-> 0, duplicates |-> 0]

\* No feed crawl was started.
FeedIdle ==
    /\ pcY = "idle"
    /\ feed_game = "_multi"
    /\ session = NoSession
    /\ posts = <<>>
    /\ processed = 0
    /\ max_posts = 1
    /\ all_results = <<>>
    /\ raisedY = FALSE
    /\ feedCrawls = 0
    /\ siteResult = NoSiteResult
    /\ sessionsCreated = 0
    /\ exitPath = "none"
    /\ exitsSeen = {}

InitFeed == FeedIdle

\* scrape_site is called for a youtube site and constructs the scraper:
\* main.py lines 71-79, youtube_scraper.py lines 61-93.
FeedStart ==
    /\ pcY \in {"idle", "returned"}
    /\ feedCrawls < MaxFeedCrawls
    /\ feedCrawls' = feedCrawls + 1
    /\ feed_game' \in {"_multi", "genshin"}
    /\ max_posts' \in 1..MaxPosts
    /\ session' = NoSession
    /\ posts' = <<>>
    /\ processed' = 0
    /\ all_results' = <<>>
    /\ raisedY' = FALSE
    /\ siteResult' = NoSiteResult
    /\ sessionsCreated' = 0
    /\ exitPath' = "none"
    /\ pcY' = "init"
    /\ UNCHANGED <<exitsSeen, scraped_articles, redeem_codes>>

\* scrape_posts calls _init_browser, which succeeds.
InitBrowser ==
    /\ pcY = "init"
    /\ session' = OpenSession
    /\ sessionsCreated' = sessionsCreated + 1
    /\ pcY' = "fetch"
    /\ UNCHANGED <<feed_game, posts, processed, max_posts, all_results, raisedY,
                   feedCrawls, siteResult, exitPath, exitsSeen, scraped_articles,
                   redeem_codes>>

\* _init_browser raises in one of its statements.  The call stands before the
\* try of scrape_posts, so the exception leaves scrape_posts at once and
\* reaches the finally clause of scrape_site.
InitBrowserFails ==
    /\ pcY = "init"
    /\ \E k \in 1..InitSteps : session' = InitFailedAt(k)
    /\ sessionsCreated' = sessionsCreated + 1
    /\ raisedY' = TRUE
    /\ exitPath' = "init_exception"
    /\ pcY' = "site_finally"
    /\ UNCHANGED <<feed_game, posts, processed, max_posts, all_results, feedCrawls,
                   siteResult, exitsSeen, scraped_articles, redeem_codes>>

\* _get_posts_content returns the texts of the posts of the page.
GetPostsContent ==
    /\ pcY = "fetch"
    /\ posts' \in FeedPostLists
    /\ exitPath' = "normal"
    /\ pcY' = "items"
    /\ UNCHANGED <<feed_game, session, processed, max_posts, all_results, raisedY,
                   feedCrawls, siteResult, sessionsCreated, exitsSeen,
                   scraped_articles, redeem_codes>>

\* The page does not load: _get_posts_content catches the error and returns [].
GetPostsContentFails ==
    /\ pcY = "fetch"
    /\ posts' = <<>>
    /\ exitPath' = "fetch_failure"
    /\ pcY' = "items"
    /\ UNCHANGED <<feed_game, session, processed, max_posts, all_results, raisedY,
                   feedCrawls, siteResult, sessionsCreated, exitsSeen,
                   scraped_articles, redeem_codes>>

\* Mutant: a marker is written for every item.
MarkDueAlways(game_results) == TRUE

\* if game_results:
MarkDue(game_results) == game_results # <<>>

\* One pass of the loop of scrape_posts, lines 213-234.
ProcessPost ==
    /\ pcY = "items"
    /\ posts # <<>>
    /\ processed < max_posts
    /\ LET content == Head(posts)
           game_results == parse_game_codes(content, feed_game)
       IN  /\ all_results' = all_results \o game_results
           /\ scraped_articles' =
                  IF MarkDue(game_results)
                  THEN mark_scraped(scraped_articles, PostUrl(processed), "_multi",
                                    <<"YouTube">> \o Slice(content, 50),
                                    TotalCodes(game_results)).rows
                  ELSE scraped_articles
    /\ processed' = processed + 1
    /\ posts' = Tail(posts)
    /\ UNCHANGED <<pcY, feed_game, session, max_posts, raisedY, feedCrawls, siteResult,
                   sessionsCreated, exitPath, exitsSeen, redeem_codes>>

\* The pass raises: mark_scraped catches IntegrityError only, any other error
\* of the database leaves the loop.
ProcessPostRaises ==
    /\ pcY = "items"
    /\ posts # <<>>
    /\ processed < max_posts
    /\ parse_game_codes(Head(posts), feed_game) # <<>>
    /\ all_results' = all_results \o parse_game_codes(Head(posts), feed_game)
    /\ raisedY' = TRUE
    /\ exitPath' = "item_exception"
    /\ pcY' = "posts_finally"
    /\ UNCHANGED <<feed_game, session, posts, processed, max_posts, feedCrawls,
                   siteResult, sessionsCreated, exitsSeen, scraped_articles,
                   redeem_codes>>

\* The loop of scrape_posts ends, or breaks on max_posts.
PostsDone ==
    /\ pcY = "items"
    /\ posts = <<>> \/ processed >= max_posts
    /\ pcY' = "posts_finally"
    /\ UNCHANGED <<feed_game, session, posts, processed, max_posts, all_results,
                   raisedY, feedCrawls, siteResult, sessionsCreated, exitPath,
                   exitsSeen, scraped_articles, redeem_codes>>

\* The finally clause of scrape_posts: self.close().
ScrapePostsFinally ==
    /\ pcY = "posts_finally"
    /\ \E strict \in BOOLEAN :
           LET r == close(session, strict)
           IN  /\ session' = r.session
               /\ raisedY' = (raisedY \/ r.raised)
    /\ pcY' = "site_finally"
    /\ UNCHANGED <<feed_game, posts, processed, max_posts, all_results, feedCrawls,
                   siteResult, sessionsCreated, exitPath, exitsSeen, scraped_articles,
                   redeem_codes>>

\* The finally clause of scrape_site and what follows it: an exception is
\* answered with errors = 1, otherwise the codes found are saved (lines 84-118).
ScrapeSiteFinally ==
    /\ pcY = "site_finally"
    /\ \E strict \in BOOLEAN :
           LET r == scrape_site_finally(session, strict)
               saved == save_codes_batch(redeem_codes, EmptyResults,
                                         CodesToSave(all_results), 1)
           IN  /\ session' = r.session
               /\ raisedY' = FALSE
               /\ IF raisedY \/ r.raised
                  THEN /\ siteResult' = [errors |-> 1, saved |-> 0, duplicates |-> 0]
                       /\ UNCHANGED redeem_codes
                  ELSE /\ siteResult' = [errors |-> 0, saved |-> saved.results.saved,
                                         duplicates |-> saved.results.duplicates]
                       /\ redeem_codes' = saved.rows
    /\ exitsSeen' = exitsSeen \cup {exitPath}
    /\ pcY' = "returned"
    /\ UNCHANGED <<feed_game, posts, processed, max_posts, all_results, feedCrawls,
                   sessionsCreated, exitPath, scraped_articles>>

(***************************************************************************)
(* SiteManager (site_manager.py) and the site loop of scrape_all (main.py)  *)
(***************************************************************************)
\* The games of the model's sites and filters.
SiteGames == {"genshin", "_multi"}

\* A site of sites.json: "enabled" is true, false or absent; game_tags is
\* given by the set of its values.
SiteData ==
    [game : SiteGames, site_type : {"arca", "custom"},
     enabled : {"true", "false", "absent"}, parse_game_tags : BOOLEAN,
     game_tags : {{}, {"genshin"}}]

\* SiteConfig(...) of _load: enabled defaults to True.
SiteConfig(data, n) ==
    [game |-> data.game, site_type |-> data.site_type, site_name |-> n,
     enabled |-> IF data.enabled = "absent" THEN TRUE ELSE data.enabled = "true",
     parse_game_tags |-> data.parse_game_tags, game_tags |-> data.game_tags]

is_multi_game(s) == s.game = "_multi" \/ s.parse_game_tags

\* [s for s in l if Test(s)]
RECURSIVE Comprehension(_, _)
Comprehension(l, Test) ==
    IF l = <<>> THEN <<>>
    ELSE (IF Test[Head(l)] THEN <<Head(l)>> ELSE <<>>) \o Comprehension(Tail(l), Test)

SitesOf(l) == {l[n] : n \in 1..Len(l)}

get_enabled_sites(l) == Comprehension(l, [s \in SitesOf(l) |-> s.enabled])

GetSitesByGameAnyFlag(l, game) == Comprehension(l, [s \in SitesOf(l) |-> s.game = game])

get_sites_by_game(l, game) ==
    Comprehension(l, [s \in SitesOf(l) |-> s.game = game /\ s.enabled])

\* The list scrape_all builds before its loop.
SelectedSites(l, filter) ==
    IF filter # ""
    THEN get_sites_by_game(l, filter)
         \o Comprehension(get_enabled_sites(l),
                [s \in SitesOf(l) |-> is_multi_game(s) /\ filter \in s.game_tags])
    ELSE get_enabled_sites(l)

MaxSites == 2

GameFilters == {"", "genshin", "starrail"}

SiteFiles ==
    UNION {[1..n -> SiteData] : n \in 0..MaxSites}

SiteIdle ==
    /\ loaded_sites = <<>>
    /\ game_filter = ""
    /\ sites = <<>>
    /\ site_idx = 1
    /\ pcA = "returned"
    /\ crawledSites = <<>>
    /\ raisedAt = {}

InitSites ==
    /\ \E file \in SiteFiles :
           loaded_sites = [n \in 1..Len(file) |-> SiteConfig(file[n], n)]
    /\ game_filter \in GameFilters
    /\ sites = <<>>
    /\ site_idx = 1
    /\ pcA = "start"
    /\ crawledSites = <<>>
    /\ raisedAt = {}

\* scrape_all up to its loop: the selection, and the return when it is empty.
ScrapeAllSelect ==
    /\ pcA = "start"
    /\ sites' = SelectedSites(loaded_sites, game_filter)
    /\ pcA' = IF sites' = <<>> THEN "returned" ELSE "loop"
    /\ UNCHANGED <<loaded_sites, game_filter, site_idx, crawledSites, raisedAt>>

\* One pass of the loop on a site of a supported type: scrape_site runs its
\* scraper.
ScrapeSiteCrawls ==
    /\ pcA = "loop"
    /\ site_idx <= Len(sites)
    /\ sites[site_idx].site_type \in {"arca", "youtube"}
    /\ crawledSites' = Append(crawledSites, sites[site_idx])
    /\ site_idx' = site_idx + 1
    /\ UNCHANGED <<loaded_sites, game_filter, sites, pcA, raisedAt>>

\* The index the loop of scrape_all goes on with after the crawl of site i
\* raised: the except clause of scrape_site returned a dict.
AfterRaise(i, total) == i + 1

\* One pass of the loop on a site of a supported type whose crawl raises
\* inside the try of scrape_site: the except clause returns one error and
\* the loop of scrape_all goes on: main.py, lines 116-118 and 161-173.
ScrapeSiteRaises ==
    /\ pcA = "loop"
    /\ site_idx <= Len(sites)
    /\ sites[site_idx].site_type \in {"arca", "youtube"}
    /\ crawledSites' = Append(crawledSites, sites[site_idx])
    /\ raisedAt' = raisedAt \cup {site_idx}
    /\ site_idx' = AfterRaise(site_idx, Len(sites))
    /\ UNCHANGED <<loaded_sites, game_filter, sites, pcA>>

\* One pass of the loop on a site of another type: scrape_site returns an
\* error without a scraper.
ScrapeSiteUnsupported ==
    /\ pcA = "loop"
    /\ site_idx <= Len(sites)
    /\ sites[site_idx].site_type \notin {"arca", "youtube"}
    /\ site_idx' = site_idx + 1
    /\ UNCHANGED <<loaded_sites, game_filter, sites, pcA, crawledSites, raisedAt>>

\* The end of the loop.
ScrapeAllReturn ==
    /\ pcA = "loop"
    /\ site_idx > Len(sites)
    /\ pcA' = "returned"
    /\ UNCHANGED <<loaded_sites, game_filter, sites, site_idx, crawledSites, raisedAt>>

(***************************************************************************)
(* One call of _parse_game_codes (scrapers/youtube_scraper.py)             *)
(***************************************************************************)
\* The texts _parse_game_codes is called on: at most MaxTagPieces pieces, each
\* a tag, a code, or text that holds neither.
MaxTagPieces == 4

TagPieces == {
    GAME_TAGS[1].tag,
    GAME_TAGS[3].tag,
    <<" ","A","B","C","1","2","3","X","Y","Z","9"," ">>,
    <<" ","G","I","F","T","C","O","D","E","2","0","2","6"," ">>,
    <<" ","h","i","\n">>
}

TaggedTexts == {Concat(ps) : ps \in UNION {[1..n -> TagPieces] : n \in 0..MaxTagPieces}}

\* The sites scrape_site builds a feed scraper for: a site of one game, a site
\* of one game with parse_game_tags set, and a site of game "_multi".
ParserSites ==
    {[game |-> "genshin", parse_game_tags |-> FALSE],
     [game |-> "genshin", parse_game_tags |-> TRUE],
     [game |-> "_multi", parse_game_tags |-> FALSE]}

ParseIdle ==
    /\ post_content = <<>>
    /\ post_game = "_multi"
    /\ post_multi = TRUE
    /\ parsed = None
    /\ pcG = "idle"

InitParse ==
    /\ post_content \in TaggedTexts
    /\ \E site \in ParserSites :
           /\ post_game = site.game
           /\ post_multi = is_multi_game(site)
    /\ parsed = None
    /\ pcG = "call"

\* One call of _parse_game_codes.
ParseCall ==
    /\ pcG = "call"
    /\ parsed' = Some(parse_game_codes(post_content, post_game))
    /\ pcG' = "done"
    /\ UNCHANGED <<post_content, post_game, post_multi>>

(***************************************************************************)
(* The web viewer: POST /api/scrape and the background run of the scraper  *)
(***************************************************************************)
\* workers of gunicorn_config.py: the server processes. Each process imports
\* web_app and has its own scrape_state and scrape_lock.
workers == 2

Workers == 1..workers

\* The requests that can be in the server at the same time.
MaxRequests == 2

Requests == 1..MaxRequests

\* scrape_state['cooldown_minutes'].
cooldown_minutes == 3

\* The last minute of the clock.
MaxNow == 3

\* The exit paths of run_scraper: the child exited with code 0, it exited
\* with another code, wait timed out, an exception was raised in the try.
ExitPaths == {"success", "exit_code", "timeout", "exception"}

WebIdle ==
    /\ now = 0
    /\ is_running = [w \in Workers |-> FALSE]
    /\ last_run = [w \in Workers |-> None]
    /\ last_result = [w \in Workers |-> "none"]
    /\ scrape_lock = [w \in Workers |-> None]
    /\ served_by = [r \in Requests |-> 1]
    /\ pcR = [r \in Requests |-> "none"]
    /\ pcT = [r \in Requests |-> "none"]
    /\ exit_path = [r \in Requests |-> "none"]

\* The module globals of web_app.py after import, in every process.
InitWeb == WebIdle

\* scrape_lock of process w can be acquired.
LockIgnored(w) == TRUE

LockFree(w) == scrape_lock[w] = None

\* The cooldown test of api_scrape: a run was started and less than
\* cooldown_minutes have passed since.
InCooldown(started, at) ==
    /\ started # None
    /\ at - started[1] < cooldown_minutes

\* The finally clause of run_scraper runs on the exit path.
FinallySkipsReturn(path) == path # "timeout"

RunsFinally(path) == path \in ExitPaths

\* The run started by request r is in progress: its thread was started and
\* has not left run_scraper.
RunInProgress(r) == pcT[r] \notin {"none", "done"}

\* A POST /api/scrape request reaches process w. The number r is free: the
\* request that had it was answered and the run it started, if any, ended.
Arrive(r, w) ==
    /\ pcR[r] \in {"none", "accepted", "rejected_running", "rejected_cooldown"}
    /\ ~RunInProgress(r)
    /\ pcR' = [pcR EXCEPT ![r] = "enter"]
    /\ pcT' = [pcT EXCEPT ![r] = "none"]
    /\ exit_path' = [exit_path EXCEPT ![r] = "none"]
    /\ served_by' = [served_by EXCEPT ![r] = w]
    /\ UNCHANGED <<now, is_running, last_run, last_result, scrape_lock>>

\* api_scrape enters "with scrape_lock".
Acquire(r) ==
    /\ pcR[r] = "enter"
    /\ LockFree(served_by[r])
    /\ scrape_lock' = [scrape_lock EXCEPT ![served_by[r]] = Some(r)]
    /\ pcR' = [pcR EXCEPT ![r] = "locked"]
    /\ UNCHANGED <<now, is_running, last_run, last_result, served_by, pcT, exit_path>>

\* The two tests of api_scrape; a return leaves the with block.
Check(r) ==
    LET w == served_by[r] IN
    /\ pcR[r] = "locked"
    /\ IF is_running[w]
       THEN /\ pcR' = [pcR EXCEPT ![r] = "rejected_running"]
            /\ scrape_lock' = [scrape_lock EXCEPT ![w] = None]
       ELSE IF InCooldown(last_run[w], now)
       THEN /\ pcR' = [pcR EXCEPT ![r] = "rejected_cooldown"]
            /\ scrape_lock' = [scrape_lock EXCEPT ![w] = None]
       ELSE /\ pcR' = [pcR EXCEPT ![r] = "begin"]
            /\ UNCHANGED scrape_lock
    /\ UNCHANGED <<now, is_running, last_run, last_result, served_by, pcT, exit_path>>

\* The three assignments that end the with block of api_scrape.
Begin(r) ==
    LET w == served_by[r] IN
    /\ pcR[r] = "begin"
    /\ is_running' = [is_running EXCEPT ![w] = TRUE]
    /\ last_run' = [last_run EXCEPT ![w] = Some(now)]
    /\ last_result' = [last_result EXCEPT ![w] = "none"]
    /\ scrape_lock' = [scrape_lock EXCEPT ![w] = None]
    /\ pcR' = [pcR EXCEPT ![r] = "spawn"]
    /\ UNCHANGED <<now, served_by, pcT, exit_path>>

\* thread.start() on run_scraper and the answer of api_scrape.
Spawn(r) ==
    /\ pcR[r] = "spawn"
    /\ pcT' = [pcT EXCEPT ![r] = "started"]
    /\ pcR' = [pcR EXCEPT ![r] = "accepted"]
    /\ UNCHANGED <<now, is_running, last_run, last_result, scrape_lock, served_by, exit_path>>

\* subprocess.Popen in run_scraper: the child starts, or Popen raises.
RunPopen(r) ==
    /\ pcT[r] = "started"
    /\ \/ /\ pcT' = [pcT EXCEPT ![r] = "reading"]
          /\ UNCHANGED exit_path
       \/ /\ pcT' = [pcT EXCEPT ![r] = "record"]
          /\ exit_path' = [exit_path EXCEPT ![r] = "exception"]
    /\ UNCHANGED <<now, is_running, last_run, last_result, scrape_lock, served_by, pcR>>

\* The child closes its output: the reading loop of run_scraper ends, and
\* process.wait returns an exit code or raises TimeoutExpired.
RunChildEnds(r) ==
    /\ pcT[r] = "reading"
    /\ \E path \in {"success", "exit_code", "timeout"} :
           exit_path' = [exit_path EXCEPT ![r] = path]
    /\ pcT' = [pcT EXCEPT ![r] = "record"]
    /\ UNCHANGED <<now, is_running, last_run, last_result, scrape_lock, served_by, pcR>>

\* run_scraper writes last_result in a with block of its own.
RunRecord(r) ==
    LET w == served_by[r] IN
    /\ pcT[r] = "record"
    /\ LockFree(w)
    /\ last_result' = [last_result EXCEPT ![w] = exit_path[r]]
    /\ pcT' = [pcT EXCEPT ![r] = "finally"]
    /\ UNCHANGED <<now, is_running, last_run, scrape_lock, served_by, pcR, exit_path>>

\* run_scraper is left: the finally clause resets is_running in a with block.
RunFinally(r) ==
    LET w == served_by[r] IN
    /\ pcT[r] = "finally"
    /\ IF RunsFinally(exit_path[r])
       THEN /\ LockFree(w)
            /\ is_running' = [is_running EXCEPT ![w] = FALSE]
       ELSE UNCHANGED is_running
    /\ pcT' = [pcT EXCEPT ![r] = "done"]
    /\ UNCHANGED <<now, last_run, last_result, scrape_lock, served_by, pcR, exit_path>>

\* A minute passes.
Tick ==
    /\ now < MaxNow
    /\ now' = now + 1
    /\ UNCHANGED <<is_running, last_run, last_result, scrape_lock, served_by, pcR, pcT,
                   exit_path>>

(***************************************************************************)
(* Specifications                                                          *)
(***************************************************************************)
\* Calls of extract on the texts.
ExtractStart == InitExtract /\ WebIdle /\ ParseIdle /\ StoreIdle /\ LedgerIdle /\ CrawlIdle /\ FeedIdle /\ SiteIdle /\ ListIdle /\ PassIdle

NextExtract == ExtractCall /\ UNCHANGED <<webVars, parseVars, storeVars, ledgerVars, crawlVars, feedVars, siteVars, listVars, passVars>>

SpecExtract == ExtractStart /\ [][NextExtract]_vars

\* Calls of extract on one extractor, one after the other.
RepeatStart == WebIdle /\ ParseIdle /\ ExtractIdle /\ StoreIdle /\ LedgerIdle /\ CrawlIdle /\ FeedIdle /\ SiteIdle /\ ListIdle /\ PassIdle

NextExtractRepeat == ExtractAgain /\ UNCHANGED <<webVars, parseVars, storeVars, ledgerVars, crawlVars, feedVars, siteVars, listVars, passVars>>

SpecExtractRepeat == RepeatStart /\ [][NextExtractRepeat]_vars

\* Concurrent runs of save_codes_batch on one database.
StoreStart == InitStore /\ WebIdle /\ ParseIdle /\ ExtractIdle /\ LedgerIdle /\ CrawlIdle /\ FeedIdle /\ SiteIdle /\ ListIdle /\ PassIdle

NextStore ==
    \/ \E r \in Runs :
           CodeExistsStep(r) /\ UNCHANGED <<webVars, parseVars, extractVars, ledgerVars, crawlVars, feedVars, siteVars, listVars, passVars>>
    \/ \E r \in Runs :
           InsertStep(r) /\ UNCHANGED <<webVars, parseVars, extractVars, ledgerVars, crawlVars, feedVars, siteVars, listVars, passVars>>
    \/ \E r \in Runs :
           BatchReturn(r) /\ UNCHANGED <<webVars, parseVars, extractVars, ledgerVars, crawlVars, feedVars, siteVars, listVars, passVars>>

SpecStore == StoreStart /\ [][NextStore]_vars

\* The same runs on a database whose commits can fail.
NextStoreFailing ==
    \/ \E r \in Runs :
           CodeExistsStep(r) /\ UNCHANGED <<webVars, parseVars, extractVars, ledgerVars, crawlVars, feedVars, siteVars, listVars, passVars>>
    \/ \E r \in Runs :
           InsertStep(r) /\ UNCHANGED <<webVars, parseVars, extractVars, ledgerVars, crawlVars, feedVars, siteVars, listVars, passVars>>
    \/ \E r \in Runs :
           BatchReturn(r) /\ UNCHANGED <<webVars, parseVars, extractVars, ledgerVars, crawlVars, feedVars, siteVars, listVars, passVars>>
    \/ \E r \in Runs :
           InsertFailsStep(r) /\ UNCHANGED <<webVars, parseVars, extractVars, ledgerVars, crawlVars, feedVars, siteVars, listVars, passVars>>

SpecStoreFailing == StoreStart /\ [][NextStoreFailing]_vars

\* Calls of mark_scraped and is_scraped, one after the other.
LedgerStart == InitLedger /\ WebIdle /\ ParseIdle /\ ExtractIdle /\ StoreIdle /\ CrawlIdle /\ FeedIdle /\ SiteIdle /\ ListIdle /\ PassIdle

NextLedger ==
    \/ \E url \in LedgerUrls, game \in Games :
           MarkScrapedCall(url, game) /\ UNCHANGED <<webVars, parseVars, extractVars, storeVars, crawlVars, feedVars, siteVars, listVars, passVars>>
    \/ \E url \in LedgerUrls :
           IsScrapedCall(url) /\ UNCHANGED <<webVars, parseVars, extractVars, storeVars, crawlVars, feedVars, siteVars, listVars, passVars>>

SpecLedger == LedgerStart /\ [][NextLedger]_vars

\* Crawls of one listing source, one after the other, on one ledger.
CrawlStart == InitCrawl /\ WebIdle /\ ParseIdle /\ ExtractIdle /\ StoreIdle /\ LedgerIdle /\ FeedIdle /\ SiteIdle /\ ListIdle /\ PassIdle

NextCrawl ==
    \/ StartCrawl /\ UNCHANGED <<webVars, parseVars, extractVars, storeVars, ledgerLog, feedVars, siteVars, listVars, passVars>>
    \/ ScrapeReturn /\ UNCHANGED <<webVars, parseVars, extractVars, storeVars, ledgerLog, feedVars, siteVars, listVars, passVars>>
    \/ GetArticleList /\ UNCHANGED <<webVars, parseVars, extractVars, storeVars, ledgerLog, feedVars, siteVars, listVars, passVars>>
    \/ GetArticleListFails /\ UNCHANGED <<webVars, parseVars, extractVars, storeVars, ledgerLog, feedVars, siteVars, listVars, passVars>>
    \/ ProcessArticle /\ UNCHANGED <<webVars, parseVars, extractVars, storeVars, ledgerLog, feedVars, siteVars, listVars, passVars>>
    \/ ProcessArticleFetchFails /\ UNCHANGED <<webVars, parseVars, extractVars, storeVars, ledgerLog, feedVars, siteVars, listVars, passVars>>
    \/ EndOfPage /\ UNCHANGED <<webVars, parseVars, extractVars, storeVars, ledgerLog, feedVars, siteVars, listVars, passVars>>

SpecCrawl == CrawlStart /\ [][NextCrawl]_vars

\* Feed crawls of one channel, one after the other, as scrape_site runs them.
FeedCrawlStart == InitFeed /\ WebIdle /\ ParseIdle /\ ExtractIdle /\ StoreIdle /\ LedgerIdle /\ CrawlIdle /\ SiteIdle /\ ListIdle /\ PassIdle

NextFeed ==
    \/ FeedStart /\ UNCHANGED <<webVars, parseVars, extractVars, batch, idx, pcS, results, returns, ledgerLog, crawlVars, siteVars, listVars, passVars>>
    \/ InitBrowser /\ UNCHANGED <<webVars, parseVars, extractVars, batch, idx, pcS, results, returns, ledgerLog, crawlVars, siteVars, listVars, passVars>>
    \/ InitBrowserFails /\ UNCHANGED <<webVars, parseVars, extractVars, batch, idx, pcS, results, returns, ledgerLog, crawlVars, siteVars, listVars, passVars>>
    \/ GetPostsContent /\ UNCHANGED <<webVars, parseVars, extractVars, batch, idx, pcS, results, returns, ledgerLog, crawlVars, siteVars, listVars, passVars>>
    \/ GetPostsContentFails /\ UNCHANGED <<webVars, parseVars, extractVars, batch, idx, pcS, results, returns, ledgerLog, crawlVars, siteVars, listVars, passVars>>
    \/ ProcessPost /\ UNCHANGED <<webVars, parseVars, extractVars, batch, idx, pcS, results, returns, ledgerLog, crawlVars, siteVars, listVars, passVars>>
    \/ ProcessPostRaises /\ UNCHANGED <<webVars, parseVars, extractVars, batch, idx, pcS, results, returns, ledgerLog, crawlVars, siteVars, listVars, passVars>>
    \/ PostsDone /\ UNCHANGED <<webVars, parseVars, extractVars, batch, idx, pcS, results, returns, ledgerLog, crawlVars, siteVars, listVars, passVars>>
    \/ ScrapePostsFinally /\ UNCHANGED <<webVars, parseVars, extractVars, batch, idx, pcS, results, returns, ledgerLog, crawlVars, siteVars, listVars, passVars>>
    \/ ScrapeSiteFinally /\ UNCHANGED <<webVars, parseVars, extractVars, batch, idx, pcS, results, returns, ledgerLog, crawlVars, siteVars, listVars, passVars>>

SpecFeed == FeedCrawlStart /\ [][NextFeed]_vars

\* Runs of scrape_all on the site files, with and without a game filter.
SitesStart ==
    /\ InitSites
    /\ WebIdle /\ ParseIdle /\ ExtractIdle /\ StoreIdle /\ LedgerIdle /\ CrawlIdle /\ FeedIdle /\ ListIdle /\ PassIdle

NextSites ==
    \/ ScrapeAllSelect /\ UNCHANGED <<webVars, parseVars, extractVars, storeVars, ledgerVars, crawlVars, feedVars, listVars, passVars>>
    \/ ScrapeSiteCrawls /\ UNCHANGED <<webVars, parseVars, extractVars, storeVars, ledgerVars, crawlVars, feedVars, listVars, passVars>>
    \/ ScrapeSiteRaises /\ UNCHANGED <<webVars, parseVars, extractVars, storeVars, ledgerVars, crawlVars, feedVars, listVars, passVars>>
    \/ ScrapeSiteUnsupported /\ UNCHANGED <<webVars, parseVars, extractVars, storeVars, ledgerVars, crawlVars, feedVars, listVars, passVars>>
    \/ ScrapeAllReturn /\ UNCHANGED <<webVars, parseVars, extractVars, storeVars, ledgerVars, crawlVars, feedVars, listVars, passVars>>

SpecSites == SitesStart /\ [][NextSites]_vars

\* One call of get_article_list on each page, ledger and skip_scraped.
ListingStart ==
    /\ InitListing
    /\ WebIdle /\ ParseIdle /\ ExtractIdle /\ StoreIdle /\ ledgerLog = <<>> /\ FeedIdle /\ SiteIdle /\ PassIdle
    /\ max_pages = 1 /\ max_articles = 1 /\ pcC = "idle" /\ page = 1
    /\ articles_processed = 0 /\ article_list = <<>> /\ stop_after_this_page = FALSE
    /\ all_articles = <<>> /\ cutoff_date = CutoffDate /\ crawls = 0 /\ listings = 0
    /\ detailFetches = [u \in ArticleUrls |-> 0] /\ pageLog = NoPage
    /\ processedPos = {} /\ sawOld = FALSE /\ lastRequest = NoRequest
    /\ failedPages = {} /\ failedPos = {} /\ foundAt = <<>> /\ crawlRequests = NoRequests

NextListing ==
    GetArticleListCall
    /\ UNCHANGED <<webVars, parseVars, extractVars, storeVars, ledgerLog, max_pages, max_articles, pcC, page,
                   articles_processed, article_list, stop_after_this_page, all_articles,
                   cutoff_date, crawls, listings, detailFetches, pageLog, processedPos,
                   sawOld, lastRequest, failedPages, failedPos, foundAt, crawlRequests, feedVars,
                   siteVars,
                   passVars>>

SpecListing == ListingStart /\ [][NextListing]_vars

\* One pass of the article loop on each queue entry, article page and ledger.
PassStart ==
    /\ InitPass
    /\ WebIdle /\ ParseIdle /\ ExtractIdle /\ StoreIdle /\ ledgerLog = <<>> /\ CrawlIdle /\ FeedIdle /\ SiteIdle
    /\ ListIdle

NextPass ==
    \/ PassFetch /\ UNCHANGED <<webVars, parseVars, extractVars, storeVars, ledgerLog, crawlVars, feedVars, siteVars, listVars>>
    \/ PassFetchFails /\ UNCHANGED <<webVars, parseVars, extractVars, storeVars, ledgerLog, crawlVars, feedVars, siteVars, listVars>>
    \/ PassProcess /\ UNCHANGED <<webVars, parseVars, extractVars, storeVars, ledgerLog, crawlVars, feedVars, siteVars, listVars>>
    \/ PassHandOver /\ UNCHANGED <<webVars, parseVars, extractVars, storeVars, ledgerLog, crawlVars, feedVars, siteVars, listVars>>
    \/ PassSave /\ UNCHANGED <<webVars, parseVars, extractVars, ledgerLog, crawlVars, feedVars, siteVars, listVars>>
    \/ PassNothingToSave /\ UNCHANGED <<webVars, parseVars, extractVars, ledgerLog, crawlVars, feedVars, siteVars, listVars>>
    \/ PassLaterArticleRaises /\ UNCHANGED <<webVars, parseVars, extractVars, ledgerLog, crawlVars, feedVars, siteVars, listVars>>

SpecPass == PassStart /\ [][NextPass]_vars

\* One call of _parse_game_codes on each text, by a scraper of one game and by
\* a scraper of "_multi".
ParseStart ==
    /\ InitParse
    /\ WebIdle /\ ExtractIdle /\ StoreIdle /\ LedgerIdle /\ CrawlIdle /\ FeedIdle /\ SiteIdle
    /\ ListIdle /\ PassIdle

NextParse ==
    ParseCall
    /\ UNCHANGED <<webVars, extractVars, storeVars, ledgerVars, crawlVars, feedVars, siteVars,
                   listVars, passVars>>

SpecParse == ParseStart /\ [][NextParse]_vars

\* Requests to POST /api/scrape on the server processes, and the runs they
\* start.
WebStart ==
    /\ InitWeb
    /\ ParseIdle /\ ExtractIdle /\ StoreIdle /\ LedgerIdle /\ CrawlIdle /\ FeedIdle /\ SiteIdle
    /\ ListIdle /\ PassIdle

NextWeb ==
    \/ (\E r \in Requests, w \in Workers : Arrive(r, w)) /\ UNCHANGED <<parseVars, extractVars, storeVars, ledgerVars, crawlVars, feedVars, siteVars, listVars, passVars>>
    \/ (\E r \in Requests : Acquire(r)) /\ UNCHANGED <<parseVars, extractVars, storeVars, ledgerVars, crawlVars, feedVars, siteVars, listVars, passVars>>
    \/ (\E r \in Requests : Check(r)) /\ UNCHANGED <<parseVars, extractVars, storeVars, ledgerVars, crawlVars, feedVars, siteVars, listVars, passVars>>
    \/ (\E r \in Requests : Begin(r)) /\ UNCHANGED <<parseVars, extractVars, storeVars, ledgerVars, crawlVars, feedVars, siteVars, listVars, passVars>>
    \/ (\E r \in Requests : Spawn(r)) /\ UNCHANGED <<parseVars, extractVars, storeVars, ledgerVars, crawlVars, feedVars, siteVars, listVars, passVars>>
    \/ (\E r \in Requests : RunPopen(r)) /\ UNCHANGED <<parseVars, extractVars, storeVars, ledgerVars, crawlVars, feedVars, siteVars, listVars, passVars>>
    \/ (\E r \in Requests : RunChildEnds(r)) /\ UNCHANGED <<parseVars, extractVars, storeVars, ledgerVars, crawlVars, feedVars, siteVars, listVars, passVars>>
    \/ (\E r \in Requests : RunRecord(r)) /\ UNCHANGED <<parseVars, extractVars, storeVars, ledgerVars, crawlVars, feedVars, siteVars, listVars, passVars>>
    \/ (\E r \in Requests : RunFinally(r)) /\ UNCHANGED <<parseVars, extractVars, storeVars, ledgerVars, crawlVars, feedVars, siteVars, listVars, passVars>>
    \/ Tick /\ UNCHANGED <<parseVars, extractVars, storeVars, ledgerVars, crawlVars, feedVars, siteVars, listVars, passVars>>

SpecWeb == WebStart /\ [][NextWeb]_vars

\* A step of the web viewer alone.
OnlyWeb(A) ==
    A /\ UNCHANGED <<parseVars, extractVars, storeVars, ledgerVars, crawlVars, feedVars,
                     siteVars, listVars, passVars>>

\* The same requests and runs, with the threads scheduled: a request thread
\* inside the with block goes on to its end, the thread of run_scraper goes
\* on, the child it reads from closes its output, and a thread of
\* run_scraper that waits for scrape_lock gets it.
SpecWebFair ==
    /\ WebStart
    /\ [][NextWeb]_vars
    /\ \A r \in Requests :
           /\ WF_vars(OnlyWeb(Check(r)))
           /\ WF_vars(OnlyWeb(Begin(r)))
           /\ WF_vars(OnlyWeb(RunPopen(r)))
           /\ WF_vars(OnlyWeb(RunChildEnds(r)))
           /\ SF_vars(OnlyWeb(RunRecord(r)))
           /\ SF_vars(OnlyWeb(RunFinally(r)))

(***************************************************************************)
(* Properties of extract                                                   *)
(***************************************************************************)
\* A string of 8 to 16 characters, each of A-Z or 0-9.
WellFormedCode(c) ==
    /\ Len(c) >= 8
    /\ Len(c) <= 16
    /\ \A j \in 1..Len(c) : c[j] \in UpperSet \cup DigitSet

\* The strings extract took from code= parameters of the text.
UrlSourced(t) == Range(extract_from_url(t))

\* C5 as stated: every string extract returns has 8 to 16 characters, all of
\* A-Z or 0-9.
C5_AllReturnedWellFormed ==
    pcE = "done" => \A k \in 1..Len(codes) : WellFormedCode(codes[k])

\* C5, amended: every string extract returns that is not the value of a code=
\* parameter of the text has 8 to 16 characters, all of A-Z or 0-9; the value
\* of a code= parameter is returned uppercased whatever its length.
C5_NonUrlReturnedWellFormed ==
    pcE = "done" =>
        \A k \in 1..Len(codes) :
            codes[k] \notin UrlSourced(text) => WellFormedCode(codes[k])

\* C5 witness: extract returned a pattern-matched code next to a code=
\* value shorter than 8 characters.
C5_Witness ==
    /\ pcE = "done"
    /\ \E k \in 1..Len(codes) : codes[k] \notin UrlSourced(text)
    /\ \E k \in 1..Len(codes) : codes[k] \in UrlSourced(text) /\ Len(codes[k]) < 8

\* C6: the value of every code= parameter of the text is returned by extract,
\* uppercased, whether or not the validator would accept it.
C6_UrlCodeReturnedUppercased ==
    pcE = "done" =>
        \A i \in 1..Len(text) :
            (UrlKeyAt(text, i) /\ UrlValueLen(text, i + 6) > 0) =>
                str_upper(SubSeq(text, i + 6, i + 5 + UrlValueLen(text, i + 6)))
                    \in Range(codes)

\* C6 witness: a code= value that the validator rejects was returned.
C6_Witness ==
    /\ pcE = "done"
    /\ \E i \in 1..Len(text) :
           /\ UrlKeyAt(text, i)
           /\ UrlValueLen(text, i + 6) > 0
           /\ LET v == str_upper(SubSeq(text, i + 6, i + 5 + UrlValueLen(text, i + 6)))
              IN  ~is_valid_code(v) /\ v \in Range(codes)

\* C7 as stated: extract never returns a string of digits only.
C7_NoDigitOnlyReturned ==
    pcE = "done" => \A k \in 1..Len(codes) : ~str_isdigit(codes[k])

\* C7, amended: extract returns a string of digits only just when it is the
\* value of a code= parameter of the text; no other digit-only string, of any
\* length and anywhere in the text, is returned.
C7_DigitOnlyReturnedOnlyFromUrl ==
    pcE = "done" =>
        \A k \in 1..Len(codes) :
            str_isdigit(codes[k]) => codes[k] \in UrlSourced(text)

\* C7 witness: the text holds a word-bounded run of 8 to 16 digits that is no
\* code= value, and extract did not return it.
C7_Witness ==
    /\ pcE = "done"
    /\ \E c \in Range(PatternFindall(str_upper(text), 1)) :
           str_isdigit(c) /\ c \notin UrlSourced(text) /\ c \notin Range(codes)

\* C13: two calls of extract on the same text return the same list, whatever
\* order the candidates were iterated in and whatever the extractor was
\* called with in between or before.
C13_ExtractDeterministic ==
    \A i, j \in 1..Len(extractLog) :
        extractLog[i].text = extractLog[j].text => extractLog[i].codes = extractLog[j].codes

\* C13 witness: the extractor was called on a text that holds two codes, then
\* on another text, then on the first text again.
C13_Witness ==
    /\ Len(extractLog) = 3
    /\ extractLog[1].text = extractLog[3].text
    /\ extractLog[2].text # extractLog[1].text
    /\ Len(extractLog[1].codes) >= 2
    /\ extractLog[2].codes # <<>>
    /\ extractLog[3].codes = extractLog[1].codes

\* C14: the list extract returns is strictly ascending in the order of
\* Python's strings: it is sorted and no string occurs in it twice.
C14_ReturnedSortedDistinct ==
    pcE = "done" =>
        \A i, j \in 1..Len(codes) : i < j => StrLess(codes[i], codes[j])

\* C14 witness: the text holds one code as a code= value and again as a bare
\* word, and a second code; extract returned the two codes, each once.
C14_Witness ==
    /\ pcE = "done"
    /\ Len(codes) = 2
    /\ \E c \in UrlSourced(text) :
           c \in Range(PatternFindall(str_upper(text), 1)) /\ c \in Range(codes)

(***************************************************************************)
(* Properties of the code store                                            *)
(***************************************************************************)
\* The save_code calls of all runs for one code, as <<run, index>>.
CallsOn(code) ==
    {x \in Runs \X (1..MaxCalls + 1) :
        x[2] <= Len(batch[x[1]]) /\ batch[x[1]][x[2]].code = code}

HasReturned(x) == x[2] <= Len(returns[x[1]])

Succeeded(x) == HasReturned(x) /\ returns[x[1]][x[2]].success

\* C2: when one code is saved under two different games and by no other
\* call, then once both calls returned exactly one succeeded; the other is
\* counted as a duplicate of its batch, never as an error, and when the two
\* calls follow each other in one batch the first succeeds and the second
\* answers that the code already exists.
C2_SecondGameIsDuplicate ==
    \A code \in SampleCodes :
        \A x, y \in CallsOn(code) :
            (/\ x # y
             /\ CallsOn(code) = {x, y}
             /\ batch[x[1]][x[2]].game # batch[y[1]][y[2]].game
             /\ HasReturned(x) /\ HasReturned(y)) =>
                /\ Succeeded(x) # Succeeded(y)
                /\ ~Succeeded(y) =>
                      /\ code \in Range(results[y[1]].duplicate_codes)
                      /\ results[y[1]].duplicates >= 1
                      /\ results[y[1]].errors = 0
                      /\ (x[1] = y[1]) =>
                            /\ x[2] < y[2]
                            /\ MentionsExists(returns[y[1]][y[2]].message)

\* C2 witness: one batch saved a code under one game and then under the other.
C2_Witness ==
    \E r \in Runs :
        /\ Len(returns[r]) >= 2
        /\ batch[r][1].code = batch[r][2].code
        /\ batch[r][1].game # batch[r][2].game
        /\ CallsOn(batch[r][1].code) = {<<r, 1>>, <<r, 2>>}
        /\ returns[r][1].success
        /\ MentionsExists(returns[r][2].message)

\* C3: in every reachable state no two rows of the store hold the same code
\* and at most one save_code call per code has returned success; once every
\* call for a code has returned, exactly one of them has.
C3_OneSuccessUnderInterleaving ==
    /\ \A i, j \in 1..Len(redeem_codes) :
           i # j => redeem_codes[i].code # redeem_codes[j].code
    /\ \A code \in SampleCodes :
           LET calls == CallsOn(code)
               won == {x \in calls : Succeeded(x)}
           IN  /\ Cardinality(won) <= 1
               /\ (calls # {} /\ \A x \in calls : HasReturned(x)) => Cardinality(won) = 1

\* C3 witness: two runs both found the code absent and both inserted it; the
\* database refused the second insert.
C3_Witness ==
    \E code \in SampleCodes :
        \E x, y \in CallsOn(code) :
            /\ x[1] # y[1]
            /\ Succeeded(x)
            /\ HasReturned(y)
            /\ MentionsDuplicate(returns[y[1]][y[2]].message)

\* The row the store holds for a code, when it holds one.
RowOf(code) ==
    redeem_codes[CHOOSE i \in 1..Len(redeem_codes) : redeem_codes[i].code = code]

\* The save_code calls that returned a rejection.
Rejected(x) == HasReturned(x) /\ ~returns[x[1]][x[2]].success

\* C12: once a save_code call for a code was rejected, whether by the
\* existence check or by the database, a call for that code has succeeded,
\* and the one row of the code holds the game, source URL and source title of
\* that successful call and is valid; nothing of the rejected call is stored.
C12_RejectedSaveLeavesRecord ==
    \A code \in SampleCodes :
        \A y \in CallsOn(code) :
            Rejected(y) =>
                /\ Cardinality({i \in 1..Len(redeem_codes) : redeem_codes[i].code = code}) = 1
                /\ \E x \in CallsOn(code) :
                       /\ Succeeded(x)
                       /\ LET e == batch[x[1]][x[2]]
                          IN  RowOf(code) =
                                  RedeemCode(e.code, e.game, e.source_url, e.source_title)

\* C12 witness: a code was saved by one run; a second run's call for it,
\* under another game, was rejected by the existence check and a third run's
\* by the database, and the row still holds the first run's game and source.
C12_Witness ==
    \E code \in SampleCodes :
        \E x, y, z \in CallsOn(code) :
            /\ Succeeded(x)
            /\ Rejected(y) /\ MentionsExists(returns[y[1]][y[2]].message)
            /\ Rejected(z) /\ MentionsDuplicate(returns[z[1]][z[2]].message)
            /\ batch[y[1]][y[2]].game # batch[x[1]][x[2]].game
            /\ batch[z[1]][z[2]].game # batch[x[1]][x[2]].game
            /\ RowOf(code).game = batch[x[1]][x[2]].game
            /\ RowOf(code).source_url = batch[x[1]][x[2]].source_url

(***************************************************************************)
(* Properties of the ledger                                                *)
(***************************************************************************)
MarkCalls(url) ==
    {i \in 1..Len(ledgerLog) :
        ledgerLog[i].op = "mark_scraped" /\ ledgerLog[i].url = url}

RowsOf(url) == {i \in 1..Len(scraped_articles) : scraped_articles[i].url = url}

\* C4: of the mark_scraped calls for one URL the first returns true and every
\* later one false, and afterwards the store holds exactly one row of the URL.
C4_MarkScrapedIdempotent ==
    \A url \in LedgerUrls :
        LET calls == MarkCalls(url)
        IN  calls # {} =>
                /\ \A i \in calls :
                       ledgerLog[i].result = (\A j \in calls : i <= j)
                /\ Cardinality(RowsOf(url)) = 1

\* C4 witness: mark_scraped was called twice with one URL.
C4_Witness ==
    \E url \in LedgerUrls :
        /\ Cardinality(MarkCalls(url)) >= 2
        /\ \E i \in MarkCalls(url) : ~ledgerLog[i].result

IsPrefix(p, s) == Len(p) <= Len(s) /\ SubSeq(s, 1, Len(p)) = p

\* The last call on the ledger, when it was is_scraped.
LastIsScraped ==
    ledgerLog # <<>> /\ ledgerLog[Len(ledgerLog)].op = "is_scraped"

HasLikeWildcard(s) == \E k \in 1..Len(s) : s[k] \in {"%", "_"}

\* A URL on which LIKE compares character by character: no wildcard and no
\* upper-case ASCII letter.
PlainUrl(s) == ~HasLikeWildcard(s) /\ \A k \in 1..Len(s) : s[k] \notin UpperSet

IsPrefixIgnoringCase(p, s) ==
    /\ Len(p) <= Len(s)
    /\ \A k \in 1..Len(p) : AsciiFold(p[k]) = AsciiFold(s[k])

HasQuery(u) == \E k \in 1..Len(u) : u[k] = "?"

\* The part of a URL that names the article: what precedes its query string.
PathOf(u) ==
    IF HasQuery(u)
    THEN SubSeq(u, 1, (CHOOSE k \in 1..Len(u) :
                           u[k] = "?" /\ \A m \in 1..(k - 1) : u[m] # "?") - 1)
    ELSE u

\* Two URLs that differ in their query strings only, if at all.
SameArticle(u, v) == PathOf(u) = PathOf(v)

\* C11: after mark_scraped(u), whatever it returned, is_scraped answers true
\* for every URL that differs from u in its query string only: a parameter
\* added, removed or changed.
C11_QueryVariantsAreScraped ==
    \A i, j \in 1..Len(ledgerLog) :
        (/\ i < j
         /\ ledgerLog[i].op = "mark_scraped"
         /\ ledgerLog[j].op = "is_scraped"
         /\ SameArticle(ledgerLog[i].url, ledgerLog[j].url)) => ledgerLog[j].result

\* C11 witness: a URL was marked with one query string; is_scraped was then
\* asked with another query string and with none, and answered true.
C11_Witness ==
    /\ Len(ledgerLog) = 3
    /\ ledgerLog[1].op = "mark_scraped"
    /\ HasQuery(ledgerLog[1].url)
    /\ \A j \in {2, 3} :
           /\ ledgerLog[j].op = "is_scraped"
           /\ ledgerLog[j].url # ledgerLog[1].url
           /\ SameArticle(ledgerLog[1].url, ledgerLog[j].url)
           /\ ledgerLog[j].result
    /\ HasQuery(ledgerLog[2].url)
    /\ ~HasQuery(ledgerLog[3].url)

(***************************************************************************)
(* Properties of the listing crawl                                         *)
(***************************************************************************)
\* C1: with skip_scraped on, whatever the listing pages hold and however many
\* crawls run, no article URL has its detail page requested more than once.
C1_DetailFetchedAtMostOnce ==
    skip_scraped => \A url \in ArticleUrls : detailFetches[url] <= 1

\* The positions of the page last fetched.
PagePositions == 1..Len(pageLog.entries)

\* The positions of that page whose list-level date is older than the cutoff.
OldPositions ==
    {i \in PagePositions : IsOld(pageLog.entries[i].article_date, CutoffDate)}

\* The entry is an article that the ledger did not hold when the page was
\* listed, or the scraper does not skip visited URLs.
OtherwiseEligible(i) ==
    /\ IsArticleHref(pageLog.entries[i].href)
    /\ ~(skip_scraped /\ i \in pageLog.visited)

Eligible(i) == i \notin OldPositions /\ OtherwiseEligible(i)

\* The entry was processed, or the crawl's article budget ran out first.
ProcessedWithinBudget(i) ==
    i \in processedPos \/ articles_processed >= max_articles

\* C8: once a listing page fetched in a crawl held an entry older than the
\* cutoff, the crawl requests no further listing page, whether or not the page
\* queued anything; and when the crawl has ended, every eligible entry of that
\* page was processed, as far as the article budget reached.
C8_StopAfterPageWithOldEntry ==
    /\ pcC = "page" => ~sawOld
    /\ (pcC = "done" /\ OldPositions # {}) =>
           \A i \in PagePositions : Eligible(i) => ProcessedWithinBudget(i)

\* C8 witness: the first page of a crawl of two pages held an old entry and,
\* after it, an eligible entry; that entry was processed and the crawl ended
\* without asking for the second page, which the model would still serve.
C8_Witness ==
    /\ pcC = "done"
    /\ page = 1
    /\ max_pages = 2
    /\ listings < MaxListings
    /\ articles_processed < max_articles
    /\ \E i, j \in PagePositions :
           i < j /\ i \in OldPositions /\ Eligible(j) /\ j \in processedPos

\* The page was listed newest first: every entry is dated and no entry is
\* newer than the one before it.
NewestFirst ==
    /\ \A i \in PagePositions : pageLog.entries[i].article_date # None
    /\ \A i, j \in PagePositions :
           i < j => pageLog.entries[i].article_date[1] >= pageLog.entries[j].article_date[1]

\* The position of the first old entry of the page.
FirstOld == CHOOSE k \in OldPositions : \A i \in OldPositions : k <= i

\* C9 as stated: on a page listed newest first whose first old entry is at
\* position k, the entries 1..k were processed when otherwise eligible, as far
\* as the budget reached, and the entries after k were not.
C9_EntriesUpToFirstOldProcessed ==
    (pcC = "done" /\ NewestFirst /\ OldPositions # {}) =>
        /\ \A i \in 1..FirstOld : OtherwiseEligible(i) => ProcessedWithinBudget(i)
        /\ \A i \in PagePositions : i > FirstOld => i \notin processedPos

\* C9, amended: on a page listed newest first whose first old entry is at
\* position k, the entries before k were processed when otherwise eligible, as
\* far as the budget reached; entry k and the entries after it were neither
\* queued nor processed; and the crawl requests no page after this one.
C9_EntriesBeforeFirstOldProcessed ==
    (NewestFirst /\ OldPositions # {}) =>
        /\ pcC # "page"
        /\ \A i \in PagePositions :
               i >= FirstOld =>
                   /\ i \notin processedPos
                   /\ \A n \in 1..Len(article_list) : article_list[n].pos # i
        /\ pcC = "done" =>
               \A i \in 1..(FirstOld - 1) :
                   OtherwiseEligible(i) => ProcessedWithinBudget(i)

\* C9 witness: a page of three entries listed newest first, the second the
\* first old one; the first entry was processed, the second and third were
\* not, and the crawl ended on its first page of two.
C9_Witness ==
    /\ pcC = "done"
    /\ page = 1
    /\ max_pages = 2
    /\ listings < MaxListings
    /\ NewestFirst
    /\ Len(pageLog.entries) = 3
    /\ OldPositions = {2, 3}
    /\ OtherwiseEligible(2)
    /\ processedPos = {1}

\* C16: a failed request ends neither the crawl nor the page.  After a failed
\* request of listing page n the crawl stands before page n + 1 with its
\* results as they were, and has ended only if n was the last page allowed;
\* when a crawl has ended, every eligible entry of its last page was processed
\* as far as the budget reached, the entries queued behind a failed article
\* page included; and what any pass found is in the list the crawl returns.
C16_FailedFetchAbortsOnlyThatFetch ==
    /\ (lastRequest.kind = "listing" /\ ~lastRequest.ok) =>
           /\ page = lastRequest.page + 1
           /\ article_list = <<>>
           /\ pcC = "page" \/ (pcC = "done" /\ page > max_pages)
    /\ (pcC = "done" /\ failedPos # {}) =>
           \A i \in PagePositions : Eligible(i) => ProcessedWithinBudget(i)
    /\ \A n \in 1..Len(foundAt) :
           \A k \in 1..Len(foundAt[n].found) :
               \E m \in 1..Len(all_articles) : all_articles[m] = foundAt[n].found[k]

\* C16 witness: a crawl of two pages with a budget of two articles has ended.
\* The request of its first page failed; on the second page the first article
\* page failed and the second one was read and gave a code, which the crawl
\* returns.
C16_Witness ==
    /\ pcC = "done"
    /\ max_pages = 2
    /\ failedPages = {1}
    /\ pageLog.entries # <<>>
    /\ max_articles = 2
    /\ \E i, j \in processedPos :
           /\ i < j
           /\ i \in failedPos
           /\ j \notin failedPos
           /\ \E m \in 1..Len(all_articles) :
                  all_articles[m].url = FullUrl(pageLog.entries[j].href)

(***************************************************************************)
(* Properties of the feed crawl                                            *)
(***************************************************************************)
SessionParts == {"playwright", "browser", "page"}

\* C15: in an invocation of the feed crawl _init_browser runs at most once,
\* and exactly once before the feed is fetched; and when the invocation has
\* returned, by whatever path, none of page, browser and driver is left open.
C15_SessionCreatedOnceAndReleased ==
    /\ sessionsCreated <= 1
    /\ pcY \in {"fetch", "items", "posts_finally"} =>
           sessionsCreated = 1 /\ session = OpenSession
    /\ pcY = "returned" => \A part \in SessionParts : session[part] # "open"

\* C15 witness: one invocation has returned by an exception in an item and
\* one by a failed launch of the browser; the last one leaves the driver
\* stopped and, having failed before new_page, no page to close.
C15_Witness ==
    /\ pcY = "returned"
    /\ exitsSeen = {"init_exception", "item_exception"}
    /\ exitPath = "init_exception"
    /\ session = [playwright |-> "released", browser |-> "none", page |-> "none"]

(***************************************************************************)
(* Properties of the site loop                                             *)
(***************************************************************************)
\* C17: a source whose enabled flag is false is never crawled in a run of
\* scrape_all, with or without a game filter: every site a scraper was run
\* on is a site of the file whose flag is not false.
C17_DisabledSiteNeverCrawled ==
    \A n \in 1..Len(crawledSites) :
        /\ crawledSites[n].enabled
        /\ \E m \in 1..Len(loaded_sites) : loaded_sites[m] = crawledSites[n]

\* A filtered run on a file that holds a disabled and an enabled site of the
\* game has returned after crawling the enabled one.
C17_Witness ==
    /\ pcA = "returned"
    /\ game_filter = "genshin"
    /\ \E m \in 1..Len(loaded_sites) :
           /\ ~loaded_sites[m].enabled
           /\ loaded_sites[m].game = "genshin"
           /\ loaded_sites[m].site_type = "arca"
    /\ crawledSites # <<>>

(***************************************************************************)
(* Properties of the age checks                                            *)
(***************************************************************************)
\* The tag carries no timestamp a parser reads: it is missing, or neither its
\* datetime attribute nor its text can be read.
Unreadable(stamp, kinds) == stamp = None \/ stamp[1].kind \notin kinds

NoListedDate(e) ==
    \/ e.time_elem = None
    \/ /\ Unreadable(e.time_elem[1].datetime, {"iso"})
       /\ Unreadable(e.time_elem[1].text, {"full", "date"})

\* The day the entry's tag names: the attribute's when it can be read, the
\* text's otherwise.
ListedDay(e) ==
    IF ~Unreadable(e.time_elem[1].datetime, {"iso"})
    THEN e.time_elem[1].datetime[1].day
    ELSE e.time_elem[1].text[1].day

\* The entry's list-level timestamp is older than now minus max_age_days.
ListedOlder(e) == ~NoListedDate(e) /\ ListedDay(e) < utcnow - max_age_days

\* C18: an entry of the page last listed whose list-level timestamp is older
\* than the cutoff is neither in the queue nor processed; and when the site
\* lists its URL with old timestamps only, its article page was never
\* requested and the ledger holds no row for it.
C18_OldEntryNeverQueued ==
    \A i \in PagePositions :
        LET e == pageLog.entries[i]
            url == FullUrl(e.href)
        IN  ListedOlder(e) =>
                /\ i \notin processedPos
                /\ \A n \in 1..Len(article_list) : article_list[n].pos # i
                /\ \A n \in 1..Len(foundAt) : foundAt[n].pos # i
                /\ (url \in ArticleUrls
                      /\ \A x \in Entries : FullUrl(x.href) = url => ListedOlder(x)) =>
                       /\ detailFetches[url] = 0
                       /\ \A n \in 1..Len(scraped_articles) : scraped_articles[n].url # url

\* C18 witness: a crawl has ended on a page of two articles, the first older
\* than the cutoff and the second not; the second was processed and the ledger
\* holds it, the first was not.
C18_Witness ==
    /\ pcC = "done"
    /\ Len(pageLog.entries) = 2
    /\ ListedOlder(pageLog.entries[1])
    /\ IsArticleHref(pageLog.entries[1].href)
    /\ ~ListedOlder(pageLog.entries[2])
    /\ processedPos = {2}
    /\ \E n \in 1..Len(scraped_articles) :
           scraped_articles[n].url = FullUrl(pageLog.entries[2].href)

\* The entry is an article link that the ledger does not hold, or the scraper
\* does not skip visited URLs.
ListedEligible(e) ==
    /\ IsArticleHref(e.href)
    /\ ~(skip_scraped /\ is_scraped(scraped_articles, FullUrl(e.href)))

\* C19: after a call of get_article_list, every entry whose timestamp is
\* missing or unreadable is in the returned queue when it is otherwise
\* eligible, and the returned found_old_article is true only if some entry of
\* the page carries a timestamp that was read and is older than the cutoff.
C19_UndatedEntryIsNotOld ==
    pcL = "done" =>
        /\ \A i \in 1..Len(list_page) :
               (NoListedDate(list_page[i]) /\ ListedEligible(list_page[i])) =>
                   \E n \in 1..Len(list_result[1].articles) :
                       /\ list_result[1].articles[n].pos = i
                       /\ list_result[1].articles[n].url = FullUrl(list_page[i].href)
        /\ list_result[1].found_old =>
               \E i \in 1..Len(list_page) : ListedOlder(list_page[i])

\* C19 witness: the page held an article without a tag and an article whose
\* tag has an unreadable attribute and an unreadable text; both are queued and
\* found_old_article is false.
C19_Witness ==
    /\ pcL = "done"
    /\ Len(list_page) = 2
    /\ list_page[1].time_elem = None
    /\ list_page[2].time_elem = TimeElem(Some(Stamp("bad", 0)), Some(Stamp("bad", 0)))
    /\ Len(list_result[1].articles) = 2
    /\ ~list_result[1].found_old

\* The timestamp the re-check is to use: the modified one when the page shows
\* it, the posted one otherwise.
ChosenTimestamp(fetched) ==
    IF fetched.modified_at = None THEN fetched.posted_at ELSE fetched.modified_at

Aged(fetched) ==
    ChosenTimestamp(fetched) # None /\ ChosenTimestamp(fetched)[1] < utcnow - max_age_days

\* C20: a pass of the article loop leaves by the age re-check exactly when the
\* modified timestamp, or the posted one when there is no modified one, is
\* older than the cutoff; it then hands codes_found 0 to mark_scraped, the
\* ledger holds the URL, with zero codes when this pass wrote the row, and
\* nothing is extracted or appended to the results.
C20_DetailAgeCheckUsesModifiedFirst ==
    pcP = "done" =>
        /\ (pass_result[1].branch = "old") <=> Aged(pass_fetched[1])
        /\ Aged(pass_fetched[1]) =>
               /\ pass_result[1].codes_found = 0
               /\ pass_result[1].found = <<>>
               /\ \E n \in 1..Len(scraped_articles) :
                      /\ scraped_articles[n].url = pass_item[1].url
                      /\ pass_result[1].inserted => scraped_articles[n].codes_found = 0

\* C20 witness: the page was posted within the cutoff and modified before
\* it, its body holds the keyword and a code; the pass wrote the ledger row
\* with zero codes and returned nothing.
C20_Witness ==
    /\ pcP = "done"
    /\ pass_fetched[1].posted_at = NewDate
    /\ pass_fetched[1].modified_at = OldDate
    /\ pass_fetched[1].content # None
    /\ extract(pass_fetched[1].content) # <<>>
    /\ pass_result[1].inserted
    /\ pass_result[1].branch = "old"
    /\ scraped_articles[1].codes_found = 0

(***************************************************************************)
(* Properties of one pass of the article loop                              *)
(***************************************************************************)
\* The text holds one of the keywords, letter case ignored.
HoldsKeyword(t) ==
    \E k \in DEFAULT_KEYWORDS :
        \E i \in 1..(Len(t) - Len(k) + 1) :
            str_lower(SubSeq(t, i, i + Len(k) - 1)) = str_lower(k)

\* The title of the pass holds a keyword, or the text read from the article
\* page does.
KeywordSeen ==
    \/ HoldsKeyword(pass_item[1].title)
    \/ pass_fetched[1].content # None /\ HoldsKeyword(pass_fetched[1].content)

\* C21: a pass extracts only when the title or the text of the article page
\* holds a keyword; when neither does, it hands codes_found 0 to mark_scraped,
\* the ledger holds the URL, with zero codes when this pass wrote the row, and
\* nothing is appended to the results, whatever codes the title or the text
\* hold.
C21_KeywordGate ==
    pcP = "done" =>
        /\ pass_result[1].branch = "extracted" => KeywordSeen
        /\ ~KeywordSeen =>
               /\ pass_result[1].branch \in {"old", "no_keyword"}
               /\ pass_result[1].codes_found = 0
               /\ pass_result[1].found = <<>>
               /\ \E n \in 1..Len(scraped_articles) :
                      /\ scraped_articles[n].url = pass_item[1].url
                      /\ pass_result[1].inserted => scraped_articles[n].codes_found = 0

\* C21 witness: neither the title, itself a code, nor the body, which holds a
\* code, holds a keyword, and the page is not old; the pass wrote the ledger
\* row with zero codes and returned nothing.
C21_Witness ==
    /\ pcP = "done"
    /\ extract(pass_item[1].title) # <<>>
    /\ pass_fetched[1].content # None
    /\ extract(pass_fetched[1].content) # <<>>
    /\ pass_result[1].branch = "no_keyword"
    /\ pass_result[1].inserted
    /\ scraped_articles[1].codes_found = 0
    /\ pass_result[1].found = <<>>

\* The codes extract finds in the title of the pass or in the text read from
\* the article page.
CodesOfTitleAndText ==
    Range(extract(pass_item[1].title))
        \cup (IF pass_fetched[1].content = None THEN {}
              ELSE Range(extract(pass_fetched[1].content)))

\* C22: a pass on an article that is not old and holds a keyword hands to
\* mark_scraped the number of codes found in the title or the text, which the
\* row holds when this pass wrote it, and returns exactly those codes; and
\* scrape_site puts one entry per code, with the article's URL and title, into
\* the list it gives to save_codes_batch.
C22_UnionEmittedCountedAndHandedOver ==
    (pcP \in {"done", "handed"} /\ ~Aged(pass_fetched[1]) /\ KeywordSeen) =>
        /\ pass_result[1].branch = "extracted"
        /\ pass_result[1].codes_found = Cardinality(CodesOfTitleAndText)
        /\ pass_result[1].inserted =>
               scraped_articles[Len(scraped_articles)].codes_found
                   = Cardinality(CodesOfTitleAndText)
        /\ IF CodesOfTitleAndText = {}
           THEN pass_result[1].found = <<>>
           ELSE /\ Len(pass_result[1].found) = 1
                /\ pass_result[1].found[1].codes = CodesOfTitleAndText
        /\ pcP = "handed" =>
               /\ Len(codes_to_save) = Cardinality(CodesOfTitleAndText)
               /\ {codes_to_save[n].code : n \in 1..Len(codes_to_save)} = CodesOfTitleAndText
               /\ \A n \in 1..Len(codes_to_save) :
                      /\ codes_to_save[n].source_url = pass_item[1].url
                      /\ codes_to_save[n].source_title = pass_item[1].title
                      /\ codes_to_save[n].game = self_game

\* C22 witness: the title is a code, the body holds the keyword and another
\* code; the ledger row written by the pass counts two codes and two entries
\* were handed over.
C22_Witness ==
    /\ pcP = "handed"
    /\ extract(pass_item[1].title) # <<>>
    /\ pass_fetched[1].content # None
    /\ Cardinality(CodesOfTitleAndText) = 2
    /\ pass_result[1].inserted
    /\ scraped_articles[1].codes_found = 2
    /\ Len(codes_to_save) = 2

(***************************************************************************)
(* Properties of the budgets of a crawl                                    *)
(***************************************************************************)
\* A step of the running crawl: the step does not start a crawl.
SameCrawl == crawls' = crawls

\* C23: a crawl requests at most max_articles article pages and at most
\* max_pages listing pages; and once it has processed max_articles articles
\* it requests no further page of either kind.
C23_BudgetsBoundTheRequests ==
    /\ [](crawlRequests.article <= max_articles /\ crawlRequests.listing <= max_pages)
    /\ [][(SameCrawl /\ crawlRequests.article >= max_articles)
              => crawlRequests' = crawlRequests]_vars

\* C23 witness: a crawl of two pages with a budget of one article has ended
\* after one listing page and one article page, though the page held a second
\* eligible entry and nothing on it was old.
C23_Witness ==
    /\ pcC = "done"
    /\ max_pages = 2
    /\ max_articles = 1
    /\ crawlRequests = [listing |-> 1, article |-> 1]
    /\ listings < MaxListings
    /\ OldPositions = {}
    /\ \E i \in PagePositions : Eligible(i) /\ i \notin processedPos

\* The listing page last requested was read, queued nothing and held no
\* entry older than the cutoff.
SparsePageListed ==
    /\ lastRequest.kind = "listing"
    /\ lastRequest.ok
    /\ \A i \in PagePositions :
           /\ ~Eligible(i)
           /\ ~ListedOlder(pageLog.entries[i])

\* C24: after a listing page that queued nothing and held no old entry the
\* crawl stands before the next page, and has ended only if that page is
\* beyond max_pages; and whenever a crawl stands before a page within
\* max_pages with article budget left, the step it takes is the request of
\* that listing page.
C24_SparsePageDoesNotStopPagination ==
    /\ [](SparsePageListed =>
              /\ page = lastRequest.page + 1
              /\ pcC = "page" \/ (pcC = "done" /\ page > max_pages))
    /\ [][(pcC = "page" /\ page <= max_pages /\ articles_processed < max_articles)
              => (/\ lastRequest'.kind = "listing"
                  /\ lastRequest'.page = page
                  /\ crawlRequests'.listing = crawlRequests.listing + 1)]_vars

\* C24 witness: the first page of a crawl of two pages held entries, all of
\* them visited or no articles and none old; the crawl stands before page 2.
C24_Witness ==
    /\ SparsePageListed
    /\ pageLog.entries # <<>>
    /\ \E i \in PagePositions : i \in pageLog.visited
    /\ lastRequest.page = 1
    /\ max_pages = 2
    /\ pcC = "page"
    /\ page = 2

(***************************************************************************)
(* Properties of the visited markers of a crawl                            *)
(***************************************************************************)
\* C25: the ledger holds no row for the URL of an entry whose article page
\* could not be fetched, unless the ledger held the URL when the page was
\* listed or another entry of the page with that URL was fetched.
C25_NoMarkerAfterFailedFetch ==
    \A i \in failedPos :
        LET url == FullUrl(pageLog.entries[i].href)
        IN  (/\ i \notin pageLog.visited
             /\ \A j \in processedPos \ failedPos :
                    FullUrl(pageLog.entries[j].href) # url)
                => \A n \in 1..Len(scraped_articles) : scraped_articles[n].url # url

\* The codes of the article the pass of this crawl put into the ledger with a
\* positive count.
MarkedWithCodes ==
    /\ pass_result # None
    /\ pass_result[1].inserted
    /\ pass_result[1].codes_found > 0

\* scrape_site has returned.
SourceCrawlEnded == pcP \in {"saved", "returned", "raised"}

\* C26: when the crawl of a source has ended, by its normal end, by an
\* exception in a later article or after a failed save, every code of an
\* article that the crawl recorded as visited with a positive count is in
\* the code store.
C26_MarkedArticleCodesStored ==
    (SourceCrawlEnded /\ MarkedWithCodes)
        => \A c \in pass_result[1].found[1].codes : code_exists(redeem_codes, c)

(***************************************************************************)
(* Properties of the parser of feed items                                  *)
(***************************************************************************)
\* The configured tag k is written at position i of t.
Written(t, i, k) ==
    LET tag == GAME_TAGS[k].tag
    IN  i + Len(tag) - 1 <= Len(t) /\ SubSeq(t, i, i + Len(tag) - 1) = tag

\* A configured tag, of whatever game, is written at position i of t.
SomeTagWritten(t, i) == \E k \in 1..Len(GAME_TAGS) : Written(t, i, k)

\* The configured tags that occur in t.
TagsIn(t) == {k \in 1..Len(GAME_TAGS) : \E i \in 1..Len(t) : Written(t, i, k)}

\* Where tag k occurs first in t.
FirstWritten(t, k) ==
    CHOOSE i \in 1..Len(t) : Written(t, i, k) /\ \A m \in 1..(i - 1) : ~Written(t, m, k)

\* The segment of tag k in t: from right after its first occurrence to the
\* next configured tag or the end of t.
Segment(t, k) ==
    LET from == FirstWritten(t, k) + Len(GAME_TAGS[k].tag)
        stops == {j \in from..Len(t) : SomeTagWritten(t, j)} \cup {Len(t) + 1}
        to == CHOOSE j \in stops : \A m \in stops : j <= m
    IN  SubSeq(t, from, to - 1)

\* The tags of t whose segment holds a code.
TagsWithCodes(t) == {k \in TagsIn(t) : extract(Segment(t, k)) # <<>>}

\* C27: when tag parsing emits results for a feed item, each result carries
\* the game of a configured tag present in the text and exactly the codes
\* extracted from that tag's segment, which runs from right after the tag to
\* the next configured tag of any game or the end of the text; and each tag
\* whose segment holds codes has such a result.
C27_TagResultsComeFromTheirSegment ==
    (pcG = "done" /\ TagsWithCodes(post_content) # {})
        => /\ \A n \in 1..Len(parsed[1]) :
                  \E k \in TagsWithCodes(post_content) :
                      /\ parsed[1][n].game = GAME_TAGS[k].game
                      /\ parsed[1][n].codes = extract(Segment(post_content, k))
           /\ \A k \in TagsWithCodes(post_content) :
                  \E n \in 1..Len(parsed[1]) :
                      /\ parsed[1][n].game = GAME_TAGS[k].game
                      /\ parsed[1][n].codes = extract(Segment(post_content, k))

\* A text with two tags of two games, each followed by a code of its own, has
\* been parsed.
C27_Witness ==
    /\ pcG = "done"
    /\ Cardinality(TagsWithCodes(post_content)) = 2
    /\ Len(parsed[1]) = 2
    /\ parsed[1][1].game # parsed[1][2].game
    /\ parsed[1][1].codes # parsed[1][2].codes

\* The games and codes of the results of a call, in their order.
Emitted(game_results) ==
    [n \in 1..Len(game_results) |->
        [game |-> game_results[n].game, codes |-> game_results[n].codes]]

\* What extraction over the entire text t under game g emits.
WholeTextEmits(t, g) ==
    IF extract(t) = <<>> THEN <<>> ELSE <<[game |-> g, codes |-> extract(t)]>>

\* Every result of the call is the result of a tag of the text: the tag's
\* game with the codes of the tag's segment.
OnlyTagResults ==
    \A n \in 1..Len(parsed[1]) :
        \E k \in TagsIn(post_content) :
            /\ parsed[1][n].game = GAME_TAGS[k].game
            /\ parsed[1][n].codes = extract(Segment(post_content, k))

FirstTagAt(t) ==
    CHOOSE i \in 1..Len(t) : SomeTagWritten(t, i) /\ \A m \in 1..(i - 1) : ~SomeTagWritten(t, m)

\* The codes that occur only in the text before the first configured tag.
LeadingOnlyCodes(t) ==
    Range(extract(SubSeq(t, 1, FirstTagAt(t) - 1)))
        \ Range(extract(SubSeq(t, FirstTagAt(t), Len(t))))

\* The codes of the results of the call, under whatever game.
EmittedCodes == UNION {Range(parsed[1][n].codes) : n \in 1..Len(parsed[1])}

ItemProcessed == pcY = "items" /\ processed' = processed + 1

\* The results the pass emitted for its item, of all games.
ItemResults == SubSeq(all_results', Len(all_results) + 1, Len(all_results'))

\* The rows of the ledger under the identifier of the n-th item of a crawl.
MarkersOf(rows, n) == {m \in 1..Len(rows) : rows[m].url = PostUrl(n)}

\* C30 as stated: for every item the crawl processes, with codes or without,
\* the ledger then holds one marker under the item's synthesized identifier,
\* with the total number of codes emitted for the item.
C30_MarkerForEveryProcessedItem ==
    [][ItemProcessed
           => /\ Cardinality(MarkersOf(scraped_articles', processed)) = 1
              /\ \A m \in MarkersOf(scraped_articles', processed) :
                     /\ scraped_articles'[m].game = "_multi"
                     /\ scraped_articles'[m].codes_found = TotalCodes(ItemResults)]_vars

\* C30, amended: the crawl records a marker for an item exactly when at least
\* one code was emitted for it and the ledger holds no marker under the
\* item's identifier, which is the channel URL with the item's position in
\* this crawl; the marker carries the total number of codes emitted for the
\* item across all games. For every other item the ledger stays as it is.
C30_MarkerForItemsWithCodes ==
    [][ItemProcessed
           => IF ItemResults # <<>> /\ MarkersOf(scraped_articles, processed) = {}
              THEN /\ Len(scraped_articles') = Len(scraped_articles) + 1
                   /\ SubSeq(scraped_articles', 1, Len(scraped_articles)) = scraped_articles
                   /\ LET row == scraped_articles'[Len(scraped_articles')]
                      IN  /\ row.url = PostUrl(processed)
                          /\ row.game = "_multi"
                          /\ row.codes_found = TotalCodes(ItemResults)
              ELSE scraped_articles' = scraped_articles]_vars

\* The first item of a crawl was emitted with two codes of two games and the
\* ledger holds its marker with the count 2.
C30_Witness ==
    /\ processed = 1
    /\ Len(all_results) = 2
    /\ all_results[1].game # all_results[2].game
    /\ \E m \in MarkersOf(scraped_articles, 0) : scraped_articles[m].codes_found = 2

(***************************************************************************)
(* Properties of extract on texts without code= parameters                 *)
(***************************************************************************)
\* The runs of 8 to 16 characters of A-Z and 0-9 in u that no word character
\* precedes or follows.
BoundedRuns(u) ==
    {SubSeq(u, i, j) : <<i, j>> \in
        {ij \in (1..Len(u)) \X (1..Len(u)) :
            /\ ij[2] - ij[1] + 1 \in 8..16
            /\ \A m \in ij[1]..ij[2] : u[m] \in UpperSet \cup DigitSet
            /\ ij[1] = 1 \/ ~IsWordChar(u[ij[1] - 1])
            /\ ij[2] = Len(u) \/ ~IsWordChar(u[ij[2] + 1])}}

\* The words that make a code of letters only acceptable.
GiftWords ==
    {<<"G","I","F","T">>, <<"C","O","D","E">>, <<"R","E","W","A","R","D">>,
     <<"F","R","E","E">>, <<"B","O","N","U","S">>}

\* The reference validator on a run of A-Z and 0-9.
ReferenceValid(c) ==
    LET digits == {m \in 1..Len(c) : c[m] \in DigitSet}
        letters == {m \in 1..Len(c) : c[m] \in UpperSet}
    IN  /\ letters # {}
        /\ Len(c) >= 10
        /\ \A m \in 1..(Len(c) - 3) : SubSeq(c, m, m + 3) # <<"X","X","X","X">>
        /\ c \notin COMMON_EXCLUSIONS
        /\ \/ digits # {}
           \/ \E w \in GiftWords :
                  /\ c # w
                  /\ \E m \in 1..(Len(c) - Len(w) + 1) : SubSeq(c, m, m + Len(w) - 1) = w

GenshinGift2026 == <<"G","E","N","S","H","I","N","G","I","F","T","2","0","2","6">>

C32_ExcludedNeverReturned ==
    pcE = "done" => \A k \in 1..Len(codes) : codes[k] \notin COMMON_EXCLUSIONS

\* C32, amended: extract returns a member of the exclusion list only as the
\* uppercased value of a code= parameter of the text; an excluded word that
\* the text holds elsewhere only is never returned.
C32_ExcludedReturnedOnlyFromUrl ==
    pcE = "done" =>
        \A k \in 1..Len(codes) :
            codes[k] \in COMMON_EXCLUSIONS => codes[k] \in UrlSourced(text)

\* The text holds an excluded word as a word of its own, which extract did
\* not return, and another excluded word as a code= value, which it did.
C32_Witness ==
    /\ pcE = "done"
    /\ \E c \in BoundedRuns(str_upper(text)) \cap COMMON_EXCLUSIONS : c \notin Range(codes)
    /\ \E k \in 1..Len(codes) : codes[k] \in COMMON_EXCLUSIONS

(***************************************************************************)
(* Properties of save_codes_batch on a database whose commits can fail     *)
(***************************************************************************)
\* A save_code call of run r returns in this step.
Returns(r) == Len(returns'[r]) = Len(returns[r]) + 1

\* The entry of run r that save_code is called on.
CurrentEntry(r) == batch[r][idx[r]]

CrawlsOf(n) == {k \in 1..Len(crawledSites) : crawledSites[k].site_name = n}

\* The sites of the run's list that scrape_site has a scraper for.
Crawlable == {i \in 1..Len(sites) : sites[i].site_type \in {"arca", "youtube"}}

\* C34: in a run of scrape_all, with or without a game filter, no site is
\* crawled more than once, and when the run has returned every site of its
\* list was crawled, whichever crawls raised.
C34_EachSourceCrawledOnce ==
    /\ \A n \in 1..Len(loaded_sites) : Cardinality(CrawlsOf(n)) <= 1
    /\ (pcA = "returned" /\ sites # <<>>) => Len(crawledSites) = Cardinality(Crawlable)


(***************************************************************************)
(* Properties of the web viewer                                            *)
(***************************************************************************)
\* The runs in progress in process w.
RunsOn(w) == {r \in Requests : served_by[r] = w /\ RunInProgress(r)}

\* The requests of process w that set is_running and have not started
\* their thread yet.
StartingOn(w) == {r \in Requests : served_by[r] = w /\ pcR[r] = "spawn"}

\* A request that finds is_running set is rejected, and no thread is started
\* for it.
RejectedWhileRunning ==
    \A r \in Requests :
        (pcR[r] = "locked" /\ is_running[served_by[r]] /\ pcR'[r] # pcR[r])
            => /\ pcR'[r] = "rejected_running"
               /\ pcT'[r] = pcT[r]
               /\ is_running' = is_running

\* C35, as stated: under every interleaving of POST /api/scrape requests at
\* most one run of the scraper is in progress at a time, and a request that
\* finds is_running set is rejected and starts no run.
C35_OneRunAtATime ==
    /\ [](Cardinality({r \in Requests : RunInProgress(r)}) <= 1)
    /\ [][RejectedWhileRunning]_vars

\* C35, within one server process: under every interleaving of the requests
\* a process serves, at most one run is in progress or being started in it,
\* is_running is set while it is, and a request that finds is_running set is
\* rejected and starts no run.
C35_OneRunPerProcess ==
    /\ [](\A w \in Workers :
             /\ Cardinality(RunsOn(w) \cup StartingOn(w)) <= 1
             /\ \A r \in RunsOn(w) \cup StartingOn(w) :
                    pcT[r] # "finally" => is_running[w])
    /\ [][RejectedWhileRunning]_vars

\* A request was rejected because of the run in progress in its process.
C35_Witness ==
    \E r, q \in Requests :
        /\ r # q
        /\ served_by[r] = served_by[q]
        /\ RunInProgress(r)
        /\ pcR[q] = "rejected_running"
        /\ ~RunInProgress(q)

====
